---- MODULE Spec2Model ----
(***************************************************************************)
(* Model of the two pieces of logic of the LLM consensus benchmark:        *)
(*   - the batch completion fetcher (OpenRouterClient and                  *)
(*     VercelAIGatewayClient: getCompletion, batchCompletion);             *)
(*   - the consensus analyzer (ConsensusAnalyzer.analyzeConsensus and the  *)
(*     private helpers it calls).                                          *)
(* Strings are sequences of one-character strings, so that trimming,       *)
(* lower-casing, punctuation removal and the edit distance are computed    *)
(* character by character as the code computes them.                       *)
(***************************************************************************)
EXTENDS Integers, Sequences, FiniteSets, TLC

VARIABLES
    \* ---- batch completion fetcher ----
    client,        \* which client class runs: "openrouter" or "vercel"
    apiKey,        \* this.apiKey of the client
    modelIds,      \* argument modelIds of batchCompletion
    concurrency,   \* options.concurrency
    pc,            \* position of batchCompletion: "loop", "await", "delay", "returned"
    i,             \* loop variable i of batchCompletion (0-based)
    tasks,         \* per position of modelIds: the state of its getCompletion call
    results,       \* the results array of batchCompletion
    \* ---- consensus analyzer ----
    responses,     \* argument responses of analyzeConsensus
    groups,        \* the groups array of groupSimilarResponses / analyzeConsensus
    cursor,        \* number of responses the for-of loop has processed
    stage,         \* position of the caller: "call", "group", "sort", "done", "insights"
    analysis,      \* the ConsensusAnalysis returned
    insights,      \* the list generateInsights returned for analysis
    previous,      \* the ConsensusAnalysis an earlier call returned for the same input
    \* ---- POST /api/prompt ----
    rpc,           \* position of the handler: "batch", "analyze", "responded"
    processed,     \* processedResults
    body,          \* the JSON body and status the handler answered
    \* ---- process environment and concurrent POST /api/prompt requests ----
    env,           \* process.env.AI_GATEWAY_API_KEY (<<>> while unset)
    reqs,          \* per request: its position, header key, client key, completions
    \* ---- models store (useModelsStore) ----
    models,            \* state.models
    selectedModelIds,  \* state.selectedModelIds
    modelsError,       \* state.error of the models store
    isLoading,         \* state.isLoading
    providerFilter,    \* state.providerFilter
    calls,             \* the syncModels / updateModelEnabled calls awaiting fetch
    held,              \* per updateModelEnabled call: what the store held when it was made
    \* ---- benchmark store (useBenchmarkStore) ----
    prompt,        \* state.prompt
    isProcessing,  \* state.isProcessing
    benchError,    \* state.error of the benchmark store
    shown,         \* the displayed results: responses, consensusGroups, insights, summary
    flights,       \* the submitPrompt / loadPromptResults calls awaiting fetch
    \* ---- POST /api/models and the models table ----
    db,            \* the models table: model_id -> row
    sync           \* the sync handler: its position and local variables

fetchVars == <<client, apiKey, modelIds, concurrency, pc, i, tasks, results>>
anaVars == <<responses, groups, cursor, stage, analysis, insights, previous>>
routeVars == <<rpc, processed, body>>
keyVars == <<env, reqs>>
storeVars == <<models, selectedModelIds, modelsError, isLoading, providerFilter, calls, held>>
benchVars == <<prompt, isProcessing, benchError, shown, flights>>
syncVars == <<db, sync>>
appVars == <<routeVars, keyVars, storeVars, benchVars, syncVars>>
vars == <<client, apiKey, modelIds, concurrency, pc, i, tasks, results,
          responses, groups, cursor, stage, analysis, insights, previous,
          rpc, processed, body, env, reqs,
          models, selectedModelIds, modelsError, isLoading, providerFilter, calls, held,
          prompt, isProcessing, benchError, shown, flights, db, sync>>

\* An absent optional object (JavaScript undefined where an object may stand).
Undefined == [undefined |-> TRUE]

Min2(a, b) == IF a <= b THEN a ELSE b
Max2(a, b) == IF a >= b THEN a ELSE b

(***************************************************************************)
(* Characters and the String methods the code uses.                        *)
(***************************************************************************)
\* \s of a JavaScript regular expression / the characters trim() strips.
IsSpace(c) == c \in {" ", "\t", "\n"}

\* \w of a JavaScript regular expression: [A-Za-z0-9_].
IsWord(c) ==
    c \in {"a", "b", "f", "i", "l", "n", "o", "p", "r", "s", "t", "w", "y",
           "A", "B", "L", "P", "4", "2", "_"}

\* Mutant of LowerChar: the case is kept.
KeepCase(c) == c

\* String.prototype.toLowerCase, one character.
LowerChar(c) ==
    CASE c = "A" -> "a"
      [] c = "B" -> "b"
      [] c = "L" -> "l"
      [] c = "P" -> "p"
      [] OTHER -> c

toLowerCase(s) == [k \in 1..Len(s) |-> LowerChar(s[k])]

RECURSIVE TrimStart(_)
TrimStart(s) ==
    IF s # <<>> /\ IsSpace(Head(s)) THEN TrimStart(Tail(s)) ELSE s

RECURSIVE TrimEnd(_)
TrimEnd(s) ==
    IF s # <<>> /\ IsSpace(s[Len(s)]) THEN TrimEnd(SubSeq(s, 1, Len(s) - 1)) ELSE s

\* String.prototype.trim
trim(s) == TrimEnd(TrimStart(s))

\* Mutant of RemovePunctuation: nothing is deleted.
KeepPunctuation(s) == s

\* .replace(/[^\w\s]/g, ''): every character that is neither \w nor \s is deleted.
RemovePunctuation(s) == SelectSeq(s, LAMBDA c : IsWord(c) \/ IsSpace(c))

\* .replace(/\s+/g, ' '): every maximal run of \s becomes one space.
RECURSIVE CollapseWhitespace(_)
CollapseWhitespace(s) ==
    IF s = <<>> THEN <<>>
    ELSE IF IsSpace(Head(s))
         THEN <<" ">> \o CollapseWhitespace(TrimStart(Tail(s)))
         ELSE <<Head(s)>> \o CollapseWhitespace(Tail(s))

\* ConsensusAnalyzer.normalizeText: lower-case, trim, remove punctuation,
\* collapse whitespace, in this order.
normalizeText(text) ==
    CollapseWhitespace(RemovePunctuation(trim(toLowerCase(text))))

(***************************************************************************)
(* ConsensusAnalyzer.levenshteinDistance: the matrix is filled row by row; *)
(* a row is a sequence whose element k is matrix[j][k-1].                  *)
(***************************************************************************)
\* matrix[0][i] = i
LevFirstRow(str1) == [k \in 1..(Len(str1) + 1) |-> k - 1]

RECURSIVE LevFillRow(_, _, _, _)
LevFillRow(prev, str1, ch, row) ==
    IF Len(row) = Len(str1) + 1 THEN row
    ELSE LET col == Len(row)          \* the i of the inner loop
             indicator == IF str1[col] = ch THEN 0 ELSE 1
             cell == Min2(Min2(row[col] + 1,               \* matrix[j][i-1] + 1
                               prev[col + 1] + 1),         \* matrix[j-1][i] + 1
                          prev[col] + indicator)           \* matrix[j-1][i-1] + indicator
         IN LevFillRow(prev, str1, ch, Append(row, cell))

RECURSIVE LevRows(_, _, _, _)
LevRows(prev, str1, str2, j) ==
    IF j > Len(str2) THEN prev
    ELSE LevRows(LevFillRow(prev, str1, str2[j], <<j>>), str1, str2, j + 1)

\* Mutant of levenshteinDistance: the difference of the lengths.
lengthDifference(str1, str2) ==
    Max2(Len(str1), Len(str2)) - Min2(Len(str1), Len(str2))

levenshteinDistance(str1, str2) ==
    LevRows(LevFirstRow(str1), str1, str2, 1)[Len(str1) + 1]

(***************************************************************************)
(* Numbers that the code computes in floating point are kept as exact      *)
(* fractions num/den (den > 0).  For the operand sizes of this model the   *)
(* IEEE-754 results compare exactly as the fractions do: similarities with *)
(* 0.8, percentages with 80, 60 and 40, diversities with 0.8, 0.6 and 0.4  *)
(* for every length, the difference of two percentages with 10 for inputs  *)
(* of fewer than 30 responses.                                             *)
(***************************************************************************)
Frac(n, d) == [num |-> n, den |-> d]
FracGeq(x, y) == x.num * y.den >= y.num * x.den

\* private static readonly SIMILARITY_THRESHOLD = 0.8
SIMILARITY_THRESHOLD == Frac(4, 5)

\* ConsensusAnalyzer.calculateSimilarity
calculateSimilarity(text1, text2) ==
    LET normalized1 == normalizeText(text1)
        normalized2 == normalizeText(text2)
        distance == levenshteinDistance(normalized1, normalized2)
        maxLength == Max2(Len(normalized1), Len(normalized2))
    IN IF normalized1 = normalized2 THEN Frac(1, 1)
       ELSE IF maxLength = 0 THEN Frac(1, 1)
       ELSE Frac(maxLength - distance, maxLength)

(***************************************************************************)
(* Batch completion fetcher.                                               *)
(*                                                                         *)
(* A task is the getCompletion call made for one position of modelIds:     *)
(*   phase     "idle" (not called), "fetch" (awaiting fetch / generateText),*)
(*             "body" (OpenRouter: awaiting response.json() or .text()),    *)
(*             "settled" (the map callback's promise is settled);           *)
(*   timer     "armed" while the abort timer is pending, "none" before it   *)
(*             is set and after clearTimeout;                               *)
(*   gw        what the gateway does with the request now in flight;        *)
(*   calls     number of getCompletion calls made for the position;         *)
(*   requests  number of requests sent to the gateway for the position;     *)
(*   aborted   whether the abort timer fired on the request;                *)
(*   promise   the map callback's promise: "pending", "fulfilled" with      *)
(*             outcome, or "rejected".                                      *)
(* A BatchOutcome is a record whose fields are the properties the object   *)
(* literal sets: [modelId, result] or [modelId, error].                    *)
(***************************************************************************)
\* maxRetries: 3 in the generateText call
maxRetries == 3

MaxModels == 3
MaxConcurrency == 2

\* ids of getPredefinedModels, in its order
Catalog == <<"openai/gpt-4o", "openai/gpt-4o-mini", "openai/gpt-3.5-turbo",
             "anthropic/claude-3-5-sonnet", "anthropic/claude-3-haiku",
             "google/gemini-1.5-pro">>

\* the modelIds arguments tried: the first n catalog ids, and a list that
\* names one model twice
ModelIdLists ==
    {SubSeq(Catalog, 1, n) : n \in 0..MaxModels} \cup {<<Catalog[2], Catalog[2]>>}

ApiKeys == {<<"k">>, <<" ">>}

\* texts a completion may carry: a word with a trailing newline, and
\* whitespace only
Contents == {<<"o", "k", "\n">>, <<" ", "\n">>}

\* What the OpenRouter endpoint may do with one request: answer 200 with one
\* choice, answer 200 with no choices, answer a non-OK status, fail at the
\* network level, never answer, answer the headers and never finish the body.
OpenRouterBehaviours ==
    {[kind |-> "content", text |-> c] : c \in Contents}
        \cup {[kind |-> k, text |-> <<>>] :
                  k \in {"nochoices", "status", "reject", "noresponse", "nobody"}}

\* What one gateway request made by generateText may do: produce a text, fail
\* with an error that is not retried, fail with a retryable error (408, 409,
\* 429, 5xx), or never complete (no answer, or a body that never ends).
VercelBehaviours ==
    {[kind |-> "content", text |-> c] : c \in Contents}
        \cup {[kind |-> k, text |-> <<>>] : k \in {"error", "retryable", "noresponse"}}

Behaviours(c) == IF c = "openrouter" THEN OpenRouterBehaviours ELSE VercelBehaviours

NoBehaviour == [kind |-> "none", text |-> <<>>]

IdleTask ==
    [phase |-> "idle", timer |-> "none", gw |-> NoBehaviour, calls |-> 0,
     requests |-> 0, aborted |-> FALSE, promise |-> "pending", outcome |-> Undefined]

\* return { modelId, result }
SuccessOutcome(modelId, text) == [modelId |-> modelId, result |-> [text |-> text]]

\* Mutant of FailureOutcome: the error property is left out.
FailureOutcomeNoError(modelId, message) == [modelId |-> modelId]

\* return { modelId, error: error instanceof Error ? error.message : 'Unknown error' }
FailureOutcome(modelId, message) == [modelId |-> modelId, error |-> message]

\* Mutant of CallbackCaught: the map callback has no try/catch, so the error
\* of getCompletion rejects the callback's promise.
CallbackUncaught(t, modelId, message) ==
    [t EXCEPT !.phase = "settled", !.promise = "rejected"]

\* catch (error) { ... return { modelId, error } } of the map callback: the
\* error thrown by getCompletion fulfils the callback's promise.
CallbackCaught(t, modelId, message) ==
    [t EXCEPT !.phase = "settled", !.promise = "fulfilled",
              !.outcome = FailureOutcome(modelId, message)]

\* const result = await this.getCompletion(...); return { modelId, result }
CallbackReturned(t, modelId, text) ==
    [t EXCEPT !.phase = "settled", !.promise = "fulfilled",
              !.outcome = SuccessOutcome(modelId, text)]

\* if (!this.apiKey || this.apiKey.trim() === '')
KeyMissing(key) == key = <<>> \/ trim(key) = <<>>

\* getCompletion run up to its first await, inside the map callback.
\* OpenRouter: the timer is set and fetch is called.  Vercel: the key is
\* checked (a missing key throws at once), then generateText is called with
\* AbortSignal.timeout(timeout).
StartCompletion(c, key, modelId, behaviour) ==
    IF c = "vercel" /\ KeyMissing(key)
    THEN CallbackCaught([IdleTask EXCEPT !.calls = 1], modelId,
                        "Failed to get completion: Vercel AI Gateway API key is required")
    ELSE [IdleTask EXCEPT !.phase = "fetch", !.timer = "armed", !.gw = behaviour,
                          !.calls = 1, !.requests = 1]

\* Mutant of BatchPositions: the chunk is one element short (slice(i, i + concurrency - 1)).
BatchPositionsShort(start, size, n) ==
    {k \in 1..n : start < k /\ k <= start + size - 1}

\* Array.prototype.slice turns an index into an offset of 0..n: a negative
\* index counts from the end, and the result is clamped.
SliceOffset(index, n) == IF index < 0 THEN Max2(n + index, 0) ELSE Min2(index, n)

\* modelIds.slice(i, i + concurrency): the 1-based positions of the chunk
BatchPositions(start, size, n) ==
    {k \in 1..n : SliceOffset(start, n) < k /\ k <= SliceOffset(start + size, n)}

\* i += concurrency.  Below -n every value of i gives the same (empty) slice
\* and the same loop test, so i is kept at -n.
NextIndex(index, step, n) == Max2(index + step, 0 - n)

\* the positions of the chunk in increasing order
RECURSIVE SetToSeq(_)
SetToSeq(S) ==
    IF S = {} THEN <<>>
    ELSE LET m == CHOOSE x \in S : \A y \in S : x <= y
         IN <<m>> \o SetToSeq(S \ {m})

\* Mutant of AllFulfilled: the next chunk does not wait for the promises.
AllFulfilledNoWait(ts, batch) == TRUE

\* Promise.all(batchPromises) resolves when every promise is fulfilled ...
AllFulfilled(ts, batch) == \A k \in batch : ts[k].promise = "fulfilled"

\* ... and rejects as soon as one promise is rejected.
AnyRejected(ts, batch) == \E k \in batch : ts[k].promise = "rejected"

\* const batchResults = await Promise.all(batchPromises): in the order of batch
BatchResults(ts, batch) ==
    LET order == SetToSeq(batch)
    IN [k \in 1..Len(order) |-> ts[order[k]].outcome]

\* batch.map(async (modelId) => ...): every request of the chunk is issued
IssueChunk(ts, start, choice) ==
    [k \in DOMAIN ts |->
        IF k \in DOMAIN choice
        THEN StartCompletion(client, apiKey, modelIds[k], choice[k])
        ELSE ts[k]]

\* Mutant of CanRetry: one retry too many.
CanRetryOneMore(t) == t.requests <= maxRetries + 1

\* generateText retries a retryable failure while fewer than maxRetries
\* retries were made
CanRetry(t) == t.requests <= maxRetries

\* POST /api/prompt not running
RouteOff == rpc = "off" /\ processed = <<>> /\ body = Undefined

\* no request to POST /api/prompt has arrived, the environment holds no key
KeyOff == env = <<>> /\ reqs = <<>>

\* the models store as created
StoreOff ==
    /\ models = <<>> /\ selectedModelIds = <<>> /\ modelsError = "null"
    /\ isLoading = FALSE /\ providerFilter = "all" /\ calls = <<>> /\ held = <<>>

\* the benchmark store as created
BenchOff ==
    /\ prompt = <<>> /\ isProcessing = FALSE /\ benchError = "null"
    /\ shown = Undefined /\ flights = <<>>

\* POST /api/models not running, the models table empty
SyncOff == db = <<>> /\ sync = Undefined

\* the application around the fetcher and the analyzer at rest
AppOff == RouteOff /\ KeyOff /\ StoreOff /\ BenchOff /\ SyncOff

AnalyzerOff ==
    /\ responses = <<>> /\ groups = <<>> /\ cursor = 0 /\ stage = "off"
    /\ analysis = Undefined /\ insights = Undefined /\ previous = Undefined

\* OpenRouterClient never reads its key but to send it; one key stands for all.
FetcherInit ==
    /\ AnalyzerOff
    /\ AppOff
    /\ client \in {"openrouter", "vercel"}
    /\ apiKey \in IF client = "vercel" THEN ApiKeys ELSE {<<"k">>}
    /\ modelIds \in ModelIdLists
    /\ concurrency \in -1..MaxConcurrency
    /\ pc = "start"
    /\ i = 0
    /\ tasks = [k \in 1..Len(modelIds) |-> IdleTask]
    /\ results = <<>>

\* batchCompletion called with an empty modelIds: the loop body never runs
CallEmpty ==
    /\ pc = "start"
    /\ ~(i < Len(modelIds))
    /\ pc' = "returned"
    /\ UNCHANGED <<client, apiKey, modelIds, concurrency, i, tasks, results>>
    /\ UNCHANGED <<anaVars, appVars>>

\* batchCompletion called: the first chunk is issued and Promise.all awaited
CallStart ==
    /\ pc = "start"
    /\ i < Len(modelIds)
    /\ \E choice \in [BatchPositions(i, concurrency, Len(modelIds)) -> Behaviours(client)] :
           tasks' = IssueChunk(tasks, i, choice)
    /\ pc' = "await"
    /\ UNCHANGED <<client, apiKey, modelIds, concurrency, i, results>>
    /\ UNCHANGED <<anaVars, appVars>>

\* Promise.all settles: batchCompletion rejects if it rejected; otherwise the
\* chunk's outcomes are pushed and either the pause starts or the loop ends
\* and results is returned
ChunkSettled ==
    /\ pc = "await"
    /\ LET batch == BatchPositions(i, concurrency, Len(modelIds))
       IN /\ AnyRejected(tasks, batch) \/ AllFulfilled(tasks, batch)
          /\ IF AnyRejected(tasks, batch)
             THEN pc' = "threw" /\ UNCHANGED <<i, results>>
             ELSE /\ results' = results \o BatchResults(tasks, batch)
                  /\ IF i + concurrency < Len(modelIds)
                     THEN pc' = "delay" /\ i' = i
                     ELSE pc' = "returned" /\ i' = NextIndex(i, concurrency, Len(modelIds))
    /\ UNCHANGED <<client, apiKey, modelIds, concurrency, tasks>>
    /\ UNCHANGED <<anaVars, appVars>>

\* the 100 ms pause ends: i += concurrency, and the next chunk is issued
DelayElapsed ==
    /\ pc = "delay"
    /\ i' = NextIndex(i, concurrency, Len(modelIds))
    /\ \E choice \in [BatchPositions(i', concurrency, Len(modelIds)) -> Behaviours(client)] :
           tasks' = IssueChunk(tasks, i', choice)
    /\ pc' = "await"
    /\ UNCHANGED <<client, apiKey, modelIds, concurrency, results>>
    /\ UNCHANGED <<anaVars, appVars>>

InFlight(t) == t.phase \in {"fetch", "body"}

\* The abort timer fires while fetch / generateText is pending: the request
\* is cancelled and nothing is in flight any more.  controller.abort() makes
\* fetch reject with an AbortError; AbortSignal.timeout aborts with a
\* TimeoutError, which the catch block reports as a failed completion.
Timeout(k) ==
    /\ tasks[k].phase = "fetch"
    /\ tasks[k].timer = "armed"
    /\ tasks' = [tasks EXCEPT ![k] =
           CallbackCaught([@ EXCEPT !.timer = "none", !.aborted = TRUE, !.gw = NoBehaviour],
               modelIds[k],
               IF client = "openrouter" THEN "Request timeout after 30000ms"
               ELSE "Failed to get completion: The operation was aborted due to timeout")]
    /\ UNCHANGED <<client, apiKey, modelIds, concurrency, pc, i, results>>
    /\ UNCHANGED <<anaVars, appVars>>

\* OpenRouter: fetch resolves with the response (any status); clearTimeout is
\* called and the body is awaited (response.text() or response.json())
OpenRouterResponse(k) ==
    /\ client = "openrouter"
    /\ tasks[k].phase = "fetch"
    /\ tasks[k].gw.kind \in {"content", "nochoices", "status", "nobody"}
    /\ tasks' = [tasks EXCEPT ![k] = [@ EXCEPT !.phase = "body", !.timer = "none"]]
    /\ UNCHANGED <<client, apiKey, modelIds, concurrency, pc, i, results>>
    /\ UNCHANGED <<anaVars, appVars>>

\* OpenRouter: fetch rejects (network failure)
OpenRouterReject(k) ==
    /\ client = "openrouter"
    /\ tasks[k].phase = "fetch"
    /\ tasks[k].gw.kind = "reject"
    /\ tasks' = [tasks EXCEPT ![k] =
           CallbackCaught(@, modelIds[k], "Failed to get completion: fetch failed")]
    /\ UNCHANGED <<client, apiKey, modelIds, concurrency, pc, i, results>>
    /\ UNCHANGED <<anaVars, appVars>>

\* OpenRouter: the body has arrived; lines 121-150 of getCompletion
OpenRouterBody(k) ==
    /\ client = "openrouter"
    /\ tasks[k].phase = "body"
    /\ tasks[k].gw.kind \in {"content", "nochoices", "status"}
    /\ LET kind == tasks[k].gw.kind
           content == trim(tasks[k].gw.text)     \* data.choices[0].message.content?.trim()
       IN tasks' = [tasks EXCEPT ![k] =
              IF kind = "status"
              THEN CallbackCaught(@, modelIds[k],
                       "Failed to get completion: OpenRouter API error")
              ELSE IF kind = "nochoices"
              THEN CallbackCaught(@, modelIds[k],
                       "Failed to get completion: No response choices returned from OpenRouter")
              ELSE IF content = <<>>
              THEN CallbackCaught(@, modelIds[k],
                       "Failed to get completion: Empty response from model")
              ELSE CallbackReturned(@, modelIds[k], content)]
    /\ UNCHANGED <<client, apiKey, modelIds, concurrency, pc, i, results>>
    /\ UNCHANGED <<anaVars, appVars>>

\* Vercel: generateText resolves; text: result.text is returned as it is
VercelResolve(k) ==
    /\ client = "vercel"
    /\ tasks[k].phase = "fetch"
    /\ tasks[k].gw.kind = "content"
    /\ tasks' = [tasks EXCEPT ![k] =
           CallbackReturned([@ EXCEPT !.timer = "none"], modelIds[k], tasks[k].gw.text)]
    /\ UNCHANGED <<client, apiKey, modelIds, concurrency, pc, i, results>>
    /\ UNCHANGED <<anaVars, appVars>>

\* Vercel: generateText rejects: an error that is not retried, or a retryable
\* one after the last retry
VercelReject(k) ==
    /\ client = "vercel"
    /\ tasks[k].phase = "fetch"
    /\ \/ tasks[k].gw.kind = "error"
       \/ tasks[k].gw.kind = "retryable" /\ ~CanRetry(tasks[k])
    /\ tasks' = [tasks EXCEPT ![k] =
           CallbackCaught([@ EXCEPT !.timer = "none"], modelIds[k],
                          "Failed to get completion: gateway error")]
    /\ UNCHANGED <<client, apiKey, modelIds, concurrency, pc, i, results>>
    /\ UNCHANGED <<anaVars, appVars>>

\* Vercel: generateText sends the request again after a retryable failure
VercelRetry(k) ==
    /\ client = "vercel"
    /\ tasks[k].phase = "fetch"
    /\ tasks[k].gw.kind = "retryable"
    /\ CanRetry(tasks[k])
    /\ \E behaviour \in VercelBehaviours :
           tasks' = [tasks EXCEPT ![k] = [@ EXCEPT !.requests = @ + 1, !.gw = behaviour]]
    /\ UNCHANGED <<client, apiKey, modelIds, concurrency, pc, i, results>>
    /\ UNCHANGED <<anaVars, appVars>>

FetcherNext ==
    \/ CallEmpty
    \/ CallStart
    \/ ChunkSettled
    \/ DelayElapsed
    \/ \E k \in DOMAIN tasks : Timeout(k)
    \/ \E k \in DOMAIN tasks : OpenRouterResponse(k)
    \/ \E k \in DOMAIN tasks : OpenRouterReject(k)
    \/ \E k \in DOMAIN tasks : OpenRouterBody(k)
    \/ \E k \in DOMAIN tasks : VercelResolve(k)
    \/ \E k \in DOMAIN tasks : VercelReject(k)
    \/ \E k \in DOMAIN tasks : VercelRetry(k)

Spec == FetcherInit /\ [][FetcherNext]_vars

\* The event loop runs every callback that is ready, pending timers fire and
\* the gateway delivers what it has decided to deliver.
FairSpec == Spec /\ WF_vars(FetcherNext)

(***************************************************************************)
(* Properties of the batch completion fetcher.                             *)
(***************************************************************************)
HasResult(o) == "result" \in DOMAIN o
HasError(o) == "error" \in DOMAIN o

\* C1: for a non-empty modelIds and a concurrency >= 1, whatever the gateway
\* did and in whatever order the requests finished, batchCompletion returns
\* one outcome per entry of modelIds, the i-th carrying modelIds[i].
C1_OrderedOutcomes ==
    (pc = "returned" /\ Len(modelIds) >= 1 /\ concurrency >= 1) =>
        /\ Len(results) = Len(modelIds)
        /\ \A k \in 1..Len(results) : results[k].modelId = modelIds[k]

\* C1 witness: a call over two chunks has returned, with a success, a failure
\* and a timed-out request among its outcomes.
C1_Witness ==
    /\ pc = "returned"
    /\ Len(modelIds) = MaxModels
    /\ concurrency = 2
    /\ Len(results) = MaxModels
    /\ \E k \in DOMAIN tasks : HasResult(tasks[k].outcome)
    /\ \E k \in DOMAIN tasks : HasError(tasks[k].outcome) /\ ~tasks[k].aborted
    /\ \E k \in DOMAIN tasks : tasks[k].aborted

\* C2: every outcome batchCompletion holds or returns has exactly one of
\* result and error set, and a set error is a non-empty message.
C2_ExactlyOne ==
    /\ \A k \in 1..Len(results) :
           /\ HasResult(results[k]) # HasError(results[k])
           /\ HasError(results[k]) => results[k].error # ""
    /\ \A k \in DOMAIN tasks :
           tasks[k].promise = "fulfilled" =>
               HasResult(tasks[k].outcome) # HasError(tasks[k].outcome)

\* C2 witness: the returned outcomes hold a result and an error.
C2_Witness ==
    /\ pc = "returned"
    /\ \E k \in 1..Len(results) : HasResult(results[k]) /\ ~HasError(results[k])
    /\ \E k \in 1..Len(results) : HasError(results[k]) /\ ~HasResult(results[k])

\* whether the gateway's own treatment of position k was a success
OwnSuccess(k) ==
    /\ ~tasks[k].aborted
    /\ tasks[k].gw.kind = "content"
    /\ client = "openrouter" => trim(tasks[k].gw.text) # <<>>

\* C3: failure isolation.  batchCompletion never rejects; a step in which one
\* request fails (throws, rejects or times out) settles that position with an
\* error and changes no other request, nor the progress of the batch; and at
\* the return each position holds its own outcome, a result exactly when the
\* gateway treated that very position successfully.
C3_FailureIsolation ==
    /\ [](pc # "threw")
    /\ [][\A k \in DOMAIN tasks :
              (InFlight(tasks[k]) /\ tasks'[k].phase = "settled"
                  /\ ~HasResult(tasks'[k].outcome)) =>
                  /\ tasks'[k].promise = "fulfilled"
                  /\ HasError(tasks'[k].outcome)
                  /\ \A j \in DOMAIN tasks : j # k => tasks'[j] = tasks[j]
                  /\ pc' = pc /\ i' = i /\ results' = results]_vars
    /\ []((pc = "returned" /\ Len(modelIds) >= 1 /\ concurrency >= 1) =>
              \A k \in DOMAIN tasks :
                  /\ k <= Len(results)
                  /\ results[k] = tasks[k].outcome
                  /\ HasResult(results[k]) <=> OwnSuccess(k))

\* C3 witness: the first request of a chunk failed, its sibling and the
\* request of the next chunk succeeded, and the call has returned.
C3_Witness ==
    /\ pc = "returned"
    /\ Len(modelIds) = MaxModels
    /\ concurrency = 2
    /\ HasError(results[1])
    /\ HasResult(results[2])
    /\ HasResult(results[MaxModels])

\* whether the gateway never completes the request of position k
Stalled(k) == k \in DOMAIN tasks /\ tasks[k].gw.kind \in {"noresponse", "nobody"}

\* C4: a request whose completion never resolves is cancelled by its timer and
\* settles with an error, wherever the gateway stalls (before the response, or
\* in its body), and the batch call returns.
C4_StalledRequestTimesOut ==
    /\ \A k \in 1..MaxModels :
           Stalled(k) ~> (k \in DOMAIN tasks /\ tasks[k].phase = "settled"
                              /\ HasError(tasks[k].outcome))
    /\ (concurrency >= 1) => <>(pc = "returned")

\* the chunk a position belongs to, for a concurrency >= 1
ChunkOf(k) == (k - 1) \div concurrency

\* C5: chunk barrier.  The positions are issued in consecutive chunks of
\* size concurrency; a request of a chunk is issued only when every request of
\* the chunks before has settled, and all of its chunk is issued with it; at
\* most concurrency requests are in flight.
C5_ChunkBarrier ==
    concurrency >= 1 =>
        /\ Cardinality({k \in DOMAIN tasks : InFlight(tasks[k])}) <= concurrency
        /\ \A j, k \in DOMAIN tasks :
               (tasks[k].phase # "idle" /\ ChunkOf(j) < ChunkOf(k)) =>
                   tasks[j].phase = "settled"
        /\ \A j, k \in DOMAIN tasks :
               (tasks[k].phase # "idle" /\ ChunkOf(j) = ChunkOf(k)) =>
                   tasks[j].phase # "idle"

\* C5 witness: the request of the second chunk is in flight after both
\* requests of the first chunk settled, one of them by its timeout.
C5_Witness ==
    /\ concurrency = 2
    /\ Len(modelIds) = 3
    /\ tasks[3].phase = "fetch"
    /\ tasks[1].phase = "settled" /\ tasks[1].aborted
    /\ tasks[2].phase = "settled"

C7_NoBlankResult ==
    /\ pc # "threw"
    /\ \A k \in 1..Len(results) :
           HasResult(results[k]) => trim(results[k].result.text) # <<>>
    /\ \A k \in DOMAIN tasks :
           (tasks[k].promise = "fulfilled"
               /\ tasks[k].gw.kind \in {"status", "error", "nochoices"}) =>
                   HasError(tasks[k].outcome)

(***************************************************************************)
(* ConsensusAnalyzer: groups and the grouping loop.                        *)
(* A Response is [text, model]; model is Undefined or [name, provider].    *)
(* A group's responses array holds the positions of its members in the     *)
(* input (the code holds references to the Response objects).              *)
(***************************************************************************)
\* private static readonly COLORS
COLORS == <<"#3B82F6", "#EF4444", "#10B981", "#F59E0B", "#8B5CF6",
            "#F97316", "#06B6D4", "#84CC16", "#EC4899", "#6B7280">>

\* Mutant of GroupMatches: the threshold compared with > instead of >=.
GroupMatchesStrict(g, normalizedText) ==
    LET sim == calculateSimilarity(g.groupName, normalizedText)
    IN sim.num * SIMILARITY_THRESHOLD.den > SIMILARITY_THRESHOLD.num * sim.den

\* groups.find(g => calculateSimilarity(g.groupName, normalizedText) >= SIMILARITY_THRESHOLD):
\* the position of the first group that satisfies the test, 0 when none does.
GroupMatches(g, normalizedText) ==
    FracGeq(calculateSimilarity(g.groupName, normalizedText), SIMILARITY_THRESHOLD)

RECURSIVE FindFrom(_, _, _)
FindFrom(gs, normalizedText, k) ==
    IF k > Len(gs) THEN 0
    ELSE IF GroupMatches(gs[k], normalizedText) THEN k
    ELSE FindFrom(gs, normalizedText, k + 1)

\* Mutant of FindGroup: the last group that satisfies the test instead of the first.
RECURSIVE FindLastFrom(_, _, _)
FindLastFrom(gs, normalizedText, k) ==
    IF k < 1 THEN 0
    ELSE IF FracGeq(calculateSimilarity(gs[k].groupName, normalizedText), SIMILARITY_THRESHOLD)
         THEN k
    ELSE FindLastFrom(gs, normalizedText, k - 1)

FindGroupLast(gs, normalizedText) == FindLastFrom(gs, normalizedText, Len(gs))

FindGroup(gs, normalizedText) == FindFrom(gs, normalizedText, 1)

\* Mutant of NewGroup: the new group starts with count 1, and is then incremented.
NewGroupCountOne(normalizedText) ==
    [groupName |-> normalizedText, count |-> 1, percentage |-> Frac(0, 1),
     color |-> <<>>, models |-> <<>>, responses |-> <<>>]

\* the object literal of a new group
NewGroup(normalizedText) ==
    [groupName |-> normalizedText, count |-> 0, percentage |-> Frac(0, 1),
     color |-> <<>>, models |-> <<>>, responses |-> <<>>]

\* group.count++; group.responses.push(response); if (response.model) group.models.push(...)
AddToGroup(g, pos, response) ==
    [g EXCEPT !.count = @ + 1,
              !.responses = Append(@, pos),
              !.models = IF response.model # Undefined
                         THEN Append(@, response.model.name) ELSE @]

\* Mutant of GroupOne: every response creates a group.
GroupOneAlwaysNew(gs, pos, response) ==
    Append(gs, AddToGroup(NewGroup(normalizeText(response.text)), pos, response))

\* One iteration of the for-of loop of groupSimilarResponses on the response
\* at position pos.
GroupOne(gs, pos, response) ==
    LET normalizedText == normalizeText(response.text)
        found == FindGroup(gs, normalizedText)
        withNew == IF found = 0 THEN Append(gs, NewGroup(normalizedText)) ELSE gs
        target == IF found = 0 THEN Len(withNew) ELSE found
    IN [withNew EXCEPT ![target] = AddToGroup(@, pos, response)]

\* Mutant of WithPercentages: the share of the total, not multiplied by 100.
WithShares(gs, total) ==
    [k \in 1..Len(gs) |-> [gs[k] EXCEPT !.percentage = Frac(gs[k].count, total)]]

\* groups.forEach(group => { group.percentage = (group.count / total) * 100 })
WithPercentages(gs, total) ==
    [k \in 1..Len(gs) |-> [gs[k] EXCEPT !.percentage = Frac(gs[k].count * 100, total)]]

\* groups.sort((a, b) => b.count - a.count): Array.prototype.sort is stable, so
\* elements that compare equal keep their order.  Insertion from the left.
\* Mutant of InsertByCount: a group is put before the groups of equal count.
RECURSIVE InsertBeforeEqual(_, _)
InsertBeforeEqual(sorted, g) ==
    IF sorted = <<>> THEN <<g>>
    ELSE IF g.count - Head(sorted).count >= 0
         THEN <<g>> \o sorted
         ELSE <<Head(sorted)>> \o InsertBeforeEqual(Tail(sorted), g)

RECURSIVE InsertByCount(_, _)
InsertByCount(sorted, g) ==
    IF sorted = <<>> THEN <<g>>
    ELSE IF g.count - Head(sorted).count > 0   \* compare(head, g) = g.count - head.count > 0
         THEN <<g>> \o sorted
         ELSE <<Head(sorted)>> \o InsertByCount(Tail(sorted), g)

RECURSIVE SortByCountFrom(_, _, _)
SortByCountFrom(gs, k, acc) ==
    IF k > Len(gs) THEN acc
    ELSE SortByCountFrom(gs, k + 1, InsertByCount(acc, gs[k]))

SortByCount(gs) == SortByCountFrom(gs, 1, <<>>)

\* groups.forEach((group, index) => { group.color = COLORS[index % COLORS.length] })
WithColors(gs) ==
    [k \in 1..Len(gs) |-> [gs[k] EXCEPT !.color = COLORS[((k - 1) % Len(COLORS)) + 1]]]

\* the ConsensusAnalysis returned for a non-empty input
MakeAnalysis(gs, totalResponses) ==
    [groups |-> gs,
     totalResponses |-> totalResponses,
     consensusLevel |-> IF Len(gs) > 0 THEN Frac(gs[1].count * 100, totalResponses)
                        ELSE Frac(0, 1),
     diversity |-> Frac(Len(gs), totalResponses),
     topResponse |-> IF Len(gs) > 0 THEN gs[1].groupName ELSE <<>>]

\* the ConsensusAnalysis returned for an empty input
EmptyAnalysis ==
    [groups |-> <<>>, totalResponses |-> 0, consensusLevel |-> Frac(0, 1),
     diversity |-> Frac(0, 1), topResponse |-> <<>>]

(***************************************************************************)
(* ConsensusAnalyzer.generateInsights.  An insight is a record: label is   *)
(* the phrase that opens the template string, the other fields are the     *)
(* values the template interpolates.  A percentage printed by toFixed(1)   *)
(* is kept as its number of tenths.                                        *)
(***************************************************************************)
FracLt(x, y) == x.num * y.den < y.num * x.den
FracEq(x, y) == x.num * y.den = y.num * x.den
FracSub(x, y) == Frac(x.num * y.den - y.num * x.den, x.den * y.den)

\* Number.prototype.toFixed(1) of a non-negative number: the nearest number of
\* tenths, the larger one when two are equally near.
toFixed1(x) == (20 * x.num + x.den) \div (2 * x.den)

\* Mutant of ConsensusInsight: the limits of the bands compared with >.
ConsensusInsightExclusive(an) ==
    [label |-> IF FracLt(Frac(80, 1), an.consensusLevel) THEN "Strong consensus"
               ELSE IF FracLt(Frac(60, 1), an.consensusLevel) THEN "Moderate consensus"
               ELSE IF FracLt(Frac(40, 1), an.consensusLevel) THEN "Weak consensus"
               ELSE "No clear consensus",
     percentage |-> toFixed1(an.consensusLevel),
     topResponse |-> an.topResponse]

\* if (consensusLevel >= 80) ... else if (>= 60) ... else if (>= 40) ... else ...
ConsensusInsight(an) ==
    [label |-> IF FracGeq(an.consensusLevel, Frac(80, 1)) THEN "Strong consensus"
               ELSE IF FracGeq(an.consensusLevel, Frac(60, 1)) THEN "Moderate consensus"
               ELSE IF FracGeq(an.consensusLevel, Frac(40, 1)) THEN "Weak consensus"
               ELSE "No clear consensus",
     percentage |-> toFixed1(an.consensusLevel),
     topResponse |-> an.topResponse]

\* if (diversity >= 0.8) ... else if (>= 0.6) ... else if (>= 0.4) ... else ...
DiversityInsight(an) ==
    [label |-> IF FracGeq(an.diversity, Frac(8, 10)) THEN "Very high diversity"
               ELSE IF FracGeq(an.diversity, Frac(6, 10)) THEN "High diversity"
               ELSE IF FracGeq(an.diversity, Frac(4, 10)) THEN "Moderate diversity"
               ELSE "Low diversity"]

\* Mutant of CloseGap: the gap compared with <= 10 instead of < 10.
CloseGapInclusive(first, second) ==
    ~FracLt(Frac(10, 1), FracSub(first.percentage, second.percentage))

\* const gap = groups[0].percentage - secondGroup.percentage; if (gap < 10)
CloseGap(first, second) ==
    FracLt(FracSub(first.percentage, second.percentage), Frac(10, 1))

\* if (groups.length >= 2) { ... if (gap < 10) insights.push(`Close competition: ...`) }
CompetitionInsights(gs) ==
    IF Len(gs) >= 2 /\ CloseGap(gs[1], gs[2])
    THEN <<[label |-> "Close competition",
            first |-> gs[1].groupName, firstPercentage |-> toFixed1(gs[1].percentage),
            second |-> gs[2].groupName, secondPercentage |-> toFixed1(gs[2].percentage)]>>
    ELSE <<>>

\* topGroup.responses.map(r => r.model?.provider).filter(Boolean)
RECURSIVE ProvidersOf(_, _)
ProvidersOf(members, rs) ==
    IF members = <<>> THEN <<>>
    ELSE LET model == rs[Head(members)].model
         IN (IF model # Undefined /\ model.provider # "" THEN <<model.provider>> ELSE <<>>)
                \o ProvidersOf(Tail(members), rs)

\* Mutant of Unique: repeated values are kept.
KeepRepeated(seq) == seq

\* [...new Set(providers)]: the distinct values in the order of first occurrence
RECURSIVE Unique(_)
Unique(seq) ==
    IF seq = <<>> THEN <<>>
    ELSE LET front == Unique(SubSeq(seq, 1, Len(seq) - 1))
             last == seq[Len(seq)]
         IN IF \E k \in 1..Len(front) : front[k] = last THEN front ELSE Append(front, last)

\* if (groups.length > 0) { ... "Provider bias" / "Cross-provider agreement" }
ProviderInsights(gs, rs) ==
    IF Len(gs) = 0 THEN <<>>
    ELSE LET uniqueProviders == Unique(ProvidersOf(gs[1].responses, rs))
         IN IF Len(uniqueProviders) = 1
            THEN <<[label |-> "Provider bias", topGroup |-> gs[1].groupName,
                    provider |-> uniqueProviders[1]]>>
            ELSE IF Len(uniqueProviders) >= 3
            THEN <<[label |-> "Cross-provider agreement", topGroup |-> gs[1].groupName,
                    providers |-> Len(uniqueProviders)]>>
            ELSE <<>>

\* Mutant of NoResponsesInsights: the early return left out, the rules run on.
NoResponsesThenRules(an) ==
    <<[label |-> "No responses to analyze."], ConsensusInsight(an), DiversityInsight(an)>>

\* if (totalResponses === 0) return ['No responses to analyze.']
NoResponsesInsights(an) == <<[label |-> "No responses to analyze."]>>

\* ConsensusAnalyzer.generateInsights; rs are the Response objects the members
\* of the groups refer to.
generateInsights(an, rs) ==
    IF an.totalResponses = 0 THEN NoResponsesInsights(an)
    ELSE <<ConsensusInsight(an), DiversityInsight(an)>>
             \o CompetitionInsights(an.groups)
             \o ProviderInsights(an.groups, rs)

(***************************************************************************)
(* Inputs of the analyzer.                                                 *)
(***************************************************************************)
MaxResponses == 3

GPT4o == [name |-> "GPT-4o", provider |-> "OpenAI"]
Haiku == [name |-> "Claude 3 Haiku", provider |-> "Anthropic"]
Gemini == [name |-> "Gemini 1.5 Pro", provider |-> "Google"]

\* Response texts: equal after normalization ("aaaaa", "Aaaaa!"), at distance 1
\* of 5 (similarity exactly 0.8), at distance 2 of 5 (0.6), at distance 1 of 4
\* (0.75), texts whose punctuation is next to a space or is an underscore, and
\* a text of punctuation only.
ResponsePool ==
    { [text |-> <<"a","a","a","a","a">>, model |-> GPT4o],
      [text |-> <<"A","a","a","a","a","!">>, model |-> Undefined],
      [text |-> <<"a","a","a","b","b">>, model |-> Haiku],
      [text |-> <<"a","a","a","a","b">>, model |-> Haiku],
      [text |-> <<"a","a","a","a">>, model |-> Gemini],
      [text |-> <<"a","a","a"," ","!">>, model |-> Undefined],
      [text |-> <<"a","_","b">>, model |-> Undefined],
      [text |-> <<"!">>, model |-> GPT4o] }

\* Inputs longer than MaxResponses.  The two examples of the specification:
ParisExample ==
    << [text |-> <<"P","a","r","i","s">>, model |-> GPT4o],
       [text |-> <<"p","a","r","i","s">>, model |-> Haiku],
       [text |-> <<"P","a","r","i","s","!">>, model |-> Gemini],
       [text |-> <<"L","y","o","n">>, model |-> Undefined] >>

FortyTwoExample ==
    << [text |-> <<"4","2">>, model |-> GPT4o],
       [text |-> <<"f","o","r","t","y","-","t","w","o">>, model |-> Haiku],
       [text |-> <<"4","2">>, model |-> Undefined] >>

\* Four texts no two of which are similar, and inputs made of them whose
\* consensus level, diversity and top-two gap stand on the limits of the
\* insight rules: 80 % and 0.4, 60 % and 0.6, 40 % and 0.8, a gap of 10 points
\* (5, 4 and 1 of 10) and a gap of 100/11 points (5, 4 and 2 of 11).
TextA == [text |-> <<"a","a","a","a","a">>, model |-> GPT4o]
TextB == [text |-> <<"a","a","a","b","b">>, model |-> Haiku]
TextC == [text |-> <<"a","_","b">>, model |-> Undefined]
TextD == [text |-> <<"!">>, model |-> GPT4o]

LimitExamples ==
    { <<TextA, TextA, TextA, TextA, TextC>>,
      <<TextA, TextA, TextA, TextC, TextD>>,
      <<TextC, TextA, TextA, TextD, TextB>>,
      <<TextA, TextC, TextA, TextC, TextA, TextC, TextA, TextC, TextA, TextD>>,
      <<TextA, TextC, TextA, TextC, TextA, TextC, TextA, TextC, TextA, TextB, TextB>> }

RECURSIVE SeqsUpTo(_, _)
SeqsUpTo(S, n) ==
    IF n = 0 THEN {<<>>}
    ELSE LET shorter == SeqsUpTo(S, n - 1)
         IN shorter \cup {Append(s, x) : s \in shorter, x \in S}

\* the inputs analyzeConsensus is called with
AnalyzerInputs ==
    SeqsUpTo(ResponsePool, MaxResponses) \cup {ParisExample, FortyTwoExample}
        \cup LimitExamples

(***************************************************************************)
(* Batch completion fetcher: state held still while the analyzer runs.     *)
(***************************************************************************)
FetcherOff ==
    /\ client = "none" /\ apiKey = <<>> /\ modelIds = <<>> /\ concurrency = 0
    /\ pc = "off" /\ i = 0 /\ tasks = <<>> /\ results = <<>>

(***************************************************************************)
(* analyzeConsensus as a state machine: the early return on an empty       *)
(* input, one action per iteration of the grouping loop, the end of        *)
(* groupSimilarResponses, and the rest of analyzeConsensus.                *)
(***************************************************************************)
AnalyzerInit ==
    /\ FetcherOff
    /\ AppOff
    /\ responses \in AnalyzerInputs
    /\ groups = <<>>
    /\ cursor = 0
    /\ stage = "call"
    /\ analysis = Undefined
    /\ insights = Undefined
    /\ previous = Undefined

\* if (responses.length === 0) return { groups: [], ... }
AnalyzeEmpty ==
    /\ stage = "call"
    /\ Len(responses) = 0
    /\ stage' = "done"
    /\ analysis' = EmptyAnalysis
    /\ UNCHANGED <<responses, groups, cursor, insights, previous>>
    /\ UNCHANGED <<fetchVars, appVars>>

\* for (const response of responses) { ... }
GroupStep ==
    /\ stage \in {"call", "group"}
    /\ cursor < Len(responses)
    /\ groups' = GroupOne(groups, cursor + 1, responses[cursor + 1])
    /\ cursor' = cursor + 1
    /\ stage' = "group"
    /\ UNCHANGED <<responses, analysis, insights, previous>>
    /\ UNCHANGED <<fetchVars, appVars>>

\* the percentages and the return of groupSimilarResponses
GroupingDone ==
    /\ stage = "group"
    /\ cursor = Len(responses)
    /\ groups' = WithPercentages(groups, Len(responses))
    /\ stage' = "sort"
    /\ UNCHANGED <<responses, cursor, analysis, insights, previous>>
    /\ UNCHANGED <<fetchVars, appVars>>

\* sort, colours, metrics and the return of analyzeConsensus
AnalyzeReturn ==
    /\ stage = "sort"
    /\ groups' = WithColors(SortByCount(groups))
    /\ analysis' = MakeAnalysis(groups', Len(responses))
    /\ stage' = "done"
    /\ UNCHANGED <<responses, cursor, insights, previous>>
    /\ UNCHANGED <<fetchVars, appVars>>

\* const insights = ConsensusAnalyzer.generateInsights(consensusAnalysis)
GenerateInsights ==
    /\ stage = "done"
    /\ insights' = generateInsights(analysis, responses)
    /\ stage' = "insights"
    /\ UNCHANGED <<responses, groups, cursor, analysis, previous>>
    /\ UNCHANGED <<fetchVars, appVars>>

\* Mutant of AnalyzeAgain: the groups array outlives the call, as a static
\* field of the class would.
AnalyzeAgainSharedGroups ==
    /\ stage = "insights"
    /\ previous = Undefined
    /\ previous' = analysis
    /\ cursor' = 0
    /\ stage' = "call"
    /\ analysis' = Undefined
    /\ insights' = Undefined
    /\ UNCHANGED <<responses, groups>>
    /\ UNCHANGED <<fetchVars, appVars>>

\* A second call of analyzeConsensus with the same responses: the class is
\* static and keeps no field between calls, groups is a new local array
\* (const groups: ConsensusGroup[] = []).
AnalyzeAgain ==
    /\ stage = "insights"
    /\ previous = Undefined
    /\ previous' = analysis
    /\ groups' = <<>>
    /\ cursor' = 0
    /\ stage' = "call"
    /\ analysis' = Undefined
    /\ insights' = Undefined
    /\ UNCHANGED responses
    /\ UNCHANGED <<fetchVars, appVars>>

AnalyzerNext ==
    AnalyzeEmpty \/ GroupStep \/ GroupingDone \/ AnalyzeReturn
        \/ GenerateInsights \/ AnalyzeAgain

AnalyzerSpec == AnalyzerInit /\ [][AnalyzerNext]_vars

(***************************************************************************)
(* Properties of the consensus analyzer.                                   *)
(***************************************************************************)
RECURSIVE SumCounts(_)
SumCounts(gs) == IF gs = <<>> THEN 0 ELSE Head(gs).count + SumCounts(Tail(gs))

\* the places at which member pos stands in the groups: pairs <<group, place>>
Memberships(gs, pos) ==
    UNION {{<<k, m>> : m \in {x \in 1..Len(gs[k].responses) : gs[k].responses[x] = pos}} :
              k \in 1..Len(gs)}

\* C8: analyzeConsensus partitions its input: each response is a member of
\* exactly one group, no group is empty, each group's count is the number of
\* its members, and the counts sum to the number of responses.
C8_Partition ==
    stage = "done" =>
        /\ \A pos \in 1..Len(responses) :
               Cardinality(Memberships(analysis.groups, pos)) = 1
        /\ \A k \in 1..Len(analysis.groups) :
               /\ analysis.groups[k].responses # <<>>
               /\ analysis.groups[k].count = Len(analysis.groups[k].responses)
               /\ \A m \in 1..Len(analysis.groups[k].responses) :
                      analysis.groups[k].responses[m] \in 1..Len(responses)
        /\ SumCounts(analysis.groups) = Len(responses)

\* C8 witness: an analysis with two groups, one of which has two members.
C8_Witness ==
    /\ stage = "done"
    /\ Len(responses) = MaxResponses
    /\ Len(analysis.groups) = 2
    /\ analysis.groups[1].count = 2

\* the existing groups whose representative is at similarity >= 0.8 of text
Qualifying(gs, text) ==
    {k \in 1..Len(gs) :
        LET sim == calculateSimilarity(gs[k].groupName, text)
        IN 5 * sim.num >= 4 * sim.den}

SetMin(S) == CHOOSE m \in S : \A x \in S : m <= x

\* C9: greedy first-match clustering.  In input order each response joins the
\* earliest-created group whose representative is at similarity >= 0.8 of the
\* response's normalized text; when no group qualifies a new group is created
\* at the end, named by that normalized text; every other group is left as it
\* was, and no step of the analysis changes the representative of a group.
C9_FirstMatch ==
    [][/\ (stage' = "group" /\ cursor' = cursor + 1) =>
              LET text == normalizeText(responses[cursor'].text)
                  Q == Qualifying(groups, text)
              IN IF Q # {}
                 THEN /\ Len(groups') = Len(groups)
                      /\ groups'[SetMin(Q)].responses =
                             Append(groups[SetMin(Q)].responses, cursor')
                      /\ \A k \in 1..Len(groups) : k # SetMin(Q) => groups'[k] = groups[k]
                      /\ \A k \in 1..Len(groups) : groups'[k].groupName = groups[k].groupName
                 ELSE /\ Len(groups') = Len(groups) + 1
                      /\ groups'[Len(groups')].groupName = text
                      /\ groups'[Len(groups')].responses = <<cursor'>>
                      /\ \A k \in 1..Len(groups) : groups'[k] = groups[k]
       /\ (stage' = "sort") =>
              /\ Len(groups') = Len(groups)
              /\ \A k \in 1..Len(groups) :
                     /\ groups'[k].groupName = groups[k].groupName
                     /\ groups'[k].responses = groups[k].responses
       /\ (stage = "sort" /\ stage' = "done") =>
              /\ Len(groups') = Len(groups)
              /\ {<<groups'[k].groupName, groups'[k].responses>> : k \in 1..Len(groups')}
                     = {<<groups[k].groupName, groups[k].responses>> : k \in 1..Len(groups)}
      ]_vars

\* C9 witness: the third response qualifies for both existing groups and has
\* been put into the first one.
C9_Witness ==
    /\ stage = "group"
    /\ cursor = 3
    /\ Len(groups) = 2
    /\ Qualifying(groups, normalizeText(responses[3].text)) = {1, 2}
    /\ groups[1].responses = <<1, 3>>
    /\ groups[2].responses = <<2>>

\* the similarity the grouping computes for an input of two responses
PairSimilarity ==
    calculateSimilarity(normalizeText(responses[1].text), normalizeText(responses[2].text))

\* C10: the merge threshold is inclusive.  An input of exactly two responses
\* yields one group iff their similarity is >= 0.8: a pair at exactly 0.8
\* (editDistance * 5 = maxLength) is merged, a pair below 0.8 is not.
C10_InclusiveThreshold ==
    (stage = "done" /\ Len(responses) = 2) =>
        /\ (5 * PairSimilarity.num = 4 * PairSimilarity.den
                => Len(analysis.groups) = 1)
        /\ (5 * PairSimilarity.num < 4 * PairSimilarity.den
                => Len(analysis.groups) = 2)
        /\ (Len(analysis.groups) = 1 <=> 5 * PairSimilarity.num >= 4 * PairSimilarity.den)

\* C10 witness: two responses at similarity exactly 0.8, merged into one group.
C10_Witness ==
    /\ stage = "done"
    /\ Len(responses) = 2
    /\ 5 * PairSimilarity.num = 4 * PairSimilarity.den
    /\ Len(analysis.groups) = 1
    /\ analysis.groups[1].count = 2

\* a pair just below the threshold (0.75) that is kept apart
C10_WitnessBelow ==
    /\ stage = "done"
    /\ Len(responses) = 2
    /\ 4 * PairSimilarity.num = 3 * PairSimilarity.den
    /\ Len(analysis.groups) = 2

\* The Levenshtein distance by its definition: the least number of
\* single-character insertions, deletions and substitutions that turn a into b.
RECURSIVE EditDistance(_, _)
EditDistance(a, b) ==
    IF a = <<>> THEN Len(b)
    ELSE IF b = <<>> THEN Len(a)
    ELSE Min2(Min2(EditDistance(Tail(a), b) + 1, EditDistance(a, Tail(b)) + 1),
              EditDistance(Tail(a), Tail(b)) + (IF Head(a) = Head(b) THEN 0 ELSE 1))

\* what C11 states of calculateSimilarity(a, b)
SimilarityContract(a, b) ==
    LET na == normalizeText(a)
        nb == normalizeText(b)
        longest == Max2(Len(na), Len(nb))
        sim == calculateSimilarity(a, b)
    IN /\ (na = <<>> /\ nb = <<>>) => FracEq(sim, Frac(1, 1))
       /\ longest > 0 => FracEq(sim, Frac(longest - EditDistance(na, nb), longest))
       /\ FracEq(sim, calculateSimilarity(b, a))
       /\ sim.den > 0 /\ 0 <= sim.num /\ sim.num <= sim.den

\* the second response of a two-response input has just been compared with
\* the group of the first
SecondCompared == stage = "group" /\ cursor = 2 /\ Len(responses) = 2

\* C11: calculateSimilarity(a, b) is 1 - editDistance(a', b') / max(len a', len b')
\* for the normalized a', b' and the true Levenshtein distance, 1 when both
\* are empty, symmetric, and within [0, 1]; for the arguments the grouping
\* passes (the group's name and the normalized text) and for the raw texts.
C11_SimilarityFormula ==
    SecondCompared =>
        /\ SimilarityContract(groups[1].groupName, normalizeText(responses[2].text))
        /\ SimilarityContract(responses[1].text, responses[2].text)

\* C11 witness: two texts at edit distance 2 of 5 have been compared.
C11_Witness ==
    /\ SecondCompared
    /\ groups[1].groupName = <<"a","a","a","a","a">>
    /\ normalizeText(responses[2].text) = <<"a","a","a","b","b">>
    /\ calculateSimilarity(groups[1].groupName, normalizeText(responses[2].text)) = Frac(3, 5)
    /\ Len(groups) = 2

\* two texts that are both empty once normalized have been compared and merged
C11_WitnessEmpty ==
    /\ SecondCompared
    /\ normalizeText(responses[1].text) = <<>>
    /\ normalizeText(responses[2].text) = <<>>
    /\ Len(groups) = 1

\* the position in the input of the response that created group g
CreatedAt(g) == g.responses[1]

\* C12: the groups analyzeConsensus returns are sorted by count descending,
\* and groups of equal count stand in the order of their creation.
C12_Ranking ==
    stage \in {"done", "insights"} =>
        \A k, l \in 1..Len(analysis.groups) :
            k < l =>
                /\ analysis.groups[k].count >= analysis.groups[l].count
                /\ analysis.groups[k].count = analysis.groups[l].count =>
                       CreatedAt(analysis.groups[k]) < CreatedAt(analysis.groups[l])

\* C12 witness: the group created second is the largest and is returned
\* first; the three groups of one member follow in their creation order.
C12_Witness ==
    /\ stage = "done"
    /\ Len(analysis.groups) = 4
    /\ analysis.groups[1].responses = <<2, 3>>
    /\ analysis.groups[2].responses = <<1>>
    /\ analysis.groups[3].responses = <<4>>
    /\ analysis.groups[4].responses = <<5>>

\* C13: derived metrics of a non-empty input.  consensusLevel is the
\* percentage of the first returned group and the largest percentage of all;
\* topResponse is the first group's name; diversity is the number of groups
\* over the number of responses; each group's percentage is 100 * count over
\* the number of responses, count being the number of its members.
C13_DerivedMetrics ==
    (stage \in {"done", "insights"} /\ Len(responses) > 0) =>
        /\ analysis.totalResponses = Len(responses)
        /\ Len(analysis.groups) >= 1
        /\ FracEq(analysis.consensusLevel, analysis.groups[1].percentage)
        /\ \A k \in 1..Len(analysis.groups) :
               /\ FracGeq(analysis.consensusLevel, analysis.groups[k].percentage)
               /\ FracEq(analysis.groups[k].percentage,
                         Frac(100 * Len(analysis.groups[k].responses), Len(responses)))
        /\ analysis.topResponse = analysis.groups[1].groupName
        /\ FracEq(analysis.diversity, Frac(Len(analysis.groups), Len(responses)))

\* C13 witness: three responses in two groups: consensus level 200/3,
\* diversity 2/3, the second group at 100/3.
C13_Witness ==
    /\ stage = "done"
    /\ Len(responses) = 3
    /\ Len(analysis.groups) = 2
    /\ FracEq(analysis.consensusLevel, Frac(200, 3))
    /\ FracEq(analysis.groups[2].percentage, Frac(100, 3))
    /\ FracEq(analysis.diversity, Frac(2, 3))
    /\ analysis.topResponse = analysis.groups[1].groupName

\* characters by kind, among those of the inputs
IsUpper(c) == c \in {"A", "B", "L", "P"}
IsPunctuation(c) == c \in {"!", "-", "_"}

NoEdgeWhitespace(s) == s = <<>> \/ (~IsSpace(s[1]) /\ ~IsSpace(s[Len(s)]))
NoWhitespaceRun(s) == \A k \in 1..(Len(s) - 1) : ~(IsSpace(s[k]) /\ IsSpace(s[k + 1]))

\* what C14 states of a string returned by normalizeText
IsNormalized(s) ==
    /\ \A k \in 1..Len(s) : ~IsUpper(s[k]) /\ ~IsPunctuation(s[k])
    /\ NoEdgeWhitespace(s)
    /\ NoWhitespaceRun(s)

\* C14: the text normalizeText returns for a response has no uppercase letter,
\* no punctuation character, no leading or trailing whitespace and no run of
\* two or more whitespace characters; so has every group name, which is such
\* a text.
C14_Normalized ==
    /\ \A p \in 1..cursor : IsNormalized(normalizeText(responses[p].text))
    /\ \A k \in 1..Len(groups) : IsNormalized(groups[k].groupName)

\* the part of C14 that normalizeText keeps: no uppercase letter, no run of
\* whitespace, no punctuation character other than the underscore
C14_Kept ==
    \A p \in 1..cursor :
        LET s == normalizeText(responses[p].text)
        IN /\ \A k \in 1..Len(s) : ~IsUpper(s[k]) /\ (IsPunctuation(s[k]) => s[k] = "_")
           /\ NoWhitespaceRun(s)

\* a text whose normalization ends with a space names a group
C14_TrailingSpace ==
    \E k \in 1..Len(groups) :
        groups[k].groupName # <<>> /\ IsSpace(groups[k].groupName[Len(groups[k].groupName)])

\* C15: for the empty input analyzeConsensus returns no group, totalResponses
\* 0, consensusLevel 0, diversity 0 and the empty topResponse, and
\* generateInsights returns the single insight "No responses to analyze.".
C15_EmptyInput ==
    (Len(responses) = 0 /\ stage \in {"done", "insights"}) =>
        /\ analysis.groups = <<>>
        /\ analysis.totalResponses = 0
        /\ FracEq(analysis.consensusLevel, Frac(0, 1))
        /\ FracEq(analysis.diversity, Frac(0, 1))
        /\ analysis.topResponse = <<>>
        /\ stage = "insights" =>
               /\ Len(insights) = 1
               /\ insights[1] = [label |-> "No responses to analyze."]

\* C15 witness: the insights of the empty input have been generated.
C15_Witness ==
    /\ stage = "insights"
    /\ responses = <<>>
    /\ analysis.totalResponses = 0
    /\ Len(insights) = 1

C17_ParisExample ==
    (responses = ParisExample /\ stage \in {"done", "insights"}) =>
        /\ Len(analysis.groups) = 2
        /\ analysis.groups[1].groupName = <<"p","a","r","i","s">>
        /\ analysis.groups[1].count = 3
        /\ FracEq(analysis.groups[1].percentage, Frac(75, 1))
        /\ analysis.groups[2].groupName = <<"l","y","o","n">>
        /\ analysis.groups[2].count = 1
        /\ FracEq(analysis.groups[2].percentage, Frac(25, 1))
        /\ FracEq(analysis.consensusLevel, Frac(75, 1))
        /\ stage = "insights" =>
               /\ insights[1].label = "Moderate consensus"
               /\ insights[1].percentage = 750
               /\ insights[1].topResponse = <<"p","a","r","i","s">>

\* C17 witness: the insights of the example have been generated.
C17_Witness ==
    /\ responses = ParisExample
    /\ stage = "insights"
    /\ analysis.groups[1].responses = <<1, 2, 3>>
    /\ insights[1].label = "Moderate consensus"

\* what C18 states of the analysis of "42", "forty-two", "42", but for the
\* name of the second group
FortyTwoGroups(secondName) ==
    /\ Len(analysis.groups) = 2
    /\ analysis.groups[1].groupName = <<"4","2">>
    /\ analysis.groups[1].count = 2
    /\ FracEq(analysis.groups[1].percentage, Frac(200, 3))
    /\ toFixed1(analysis.groups[1].percentage) = 667
    /\ analysis.groups[2].groupName = secondName
    /\ analysis.groups[2].count = 1
    /\ FracEq(analysis.groups[2].percentage, Frac(100, 3))
    /\ toFixed1(analysis.groups[2].percentage) = 333
    /\ FracEq(analysis.diversity, Frac(2, 3))

\* C18 as stated: for the responses "42", "forty-two", "42" analyzeConsensus
\* returns the group named "42" with count 2 (66.7 %) and the group named
\* "forty-two" with count 1 (33.3 %), and diversity is 2/3.
C18_FortyTwoExample ==
    (responses = FortyTwoExample /\ stage \in {"done", "insights"}) =>
        FortyTwoGroups(<<"f","o","r","t","y","-","t","w","o">>)

\* C18 as amended: the same, the second group being named by its normalized
\* text "fortytwo", the hyphen removed as punctuation.
C18_FortyTwoNormalized ==
    (responses = FortyTwoExample /\ stage \in {"done", "insights"}) =>
        FortyTwoGroups(<<"f","o","r","t","y","t","w","o">>)

\* C18 witness: the analysis of the example has returned.
C18_Witness ==
    /\ responses = FortyTwoExample
    /\ stage = "done"
    /\ analysis.groups[1].responses = <<1, 3>>
    /\ analysis.groups[2].responses = <<2>>

ConsensusLabels ==
    {"Strong consensus", "Moderate consensus", "Weak consensus", "No clear consensus"}
DiversityLabels ==
    {"Very high diversity", "High diversity", "Moderate diversity", "Low diversity"}

\* how many insights of the list carry a label of L
CountLabelled(list, L) == Cardinality({k \in 1..Len(list) : list[k].label \in L})

\* the insights of a non-empty input have been generated
InsightsGenerated == stage = "insights" /\ Len(responses) > 0

\* C19: for a non-empty analysis exactly one consensus-level insight is
\* emitted, by the band of consensusLevel (>= 80 strong, >= 60 moderate, >= 40
\* weak, below 40 no clear consensus), then exactly one diversity-level
\* insight, by the band of diversity (>= 0.8 very high, >= 0.6 high, >= 0.4
\* moderate, below low); they are the first and the second insight.
C19_Bands ==
    InsightsGenerated =>
        LET level == analysis.consensusLevel
            div == analysis.diversity
        IN /\ Len(insights) >= 2
           /\ CountLabelled(insights, ConsensusLabels) = 1
           /\ CountLabelled(insights, DiversityLabels) = 1
           /\ insights[1].label = "Strong consensus" <=> level.num >= 80 * level.den
           /\ insights[1].label = "Moderate consensus" <=>
                  (level.num >= 60 * level.den /\ level.num < 80 * level.den)
           /\ insights[1].label = "Weak consensus" <=>
                  (level.num >= 40 * level.den /\ level.num < 60 * level.den)
           /\ insights[1].label = "No clear consensus" <=> level.num < 40 * level.den
           /\ insights[2].label = "Very high diversity" <=> 10 * div.num >= 8 * div.den
           /\ insights[2].label = "High diversity" <=>
                  (10 * div.num >= 6 * div.den /\ 10 * div.num < 8 * div.den)
           /\ insights[2].label = "Moderate diversity" <=>
                  (10 * div.num >= 4 * div.den /\ 10 * div.num < 6 * div.den)
           /\ insights[2].label = "Low diversity" <=> 10 * div.num < 4 * div.den

\* C19 witness: a consensus level of exactly 60 and a diversity of exactly
\* 0.6 give "Moderate consensus" and "High diversity".
C19_Witness ==
    /\ InsightsGenerated
    /\ FracEq(analysis.consensusLevel, Frac(60, 1))
    /\ FracEq(analysis.diversity, Frac(6, 10))
    /\ insights[1].label = "Moderate consensus"
    /\ insights[2].label = "High diversity"

\* exactly 80 and exactly 0.4: "Strong consensus" and "Moderate diversity"
C19_WitnessStrong ==
    /\ InsightsGenerated
    /\ FracEq(analysis.consensusLevel, Frac(80, 1))
    /\ FracEq(analysis.diversity, Frac(4, 10))
    /\ insights[1].label = "Strong consensus"
    /\ insights[2].label = "Moderate diversity"

\* exactly 40 and exactly 0.8: "Weak consensus" and "Very high diversity"
C19_WitnessWeak ==
    /\ InsightsGenerated
    /\ FracEq(analysis.consensusLevel, Frac(40, 1))
    /\ FracEq(analysis.diversity, Frac(8, 10))
    /\ insights[1].label = "Weak consensus"
    /\ insights[2].label = "Very high diversity"

\* below 40, and below 0.4
C19_WitnessNoConsensus == InsightsGenerated /\ insights[1].label = "No clear consensus"
C19_WitnessLowDiversity == InsightsGenerated /\ insights[2].label = "Low diversity"

\* the first group's percentage minus the second's, in hundredths of the
\* total: 100 * (count1 - count2) / total compared with 10
TopTwoGapBelowTen ==
    /\ Len(analysis.groups) >= 2
    /\ 100 * (analysis.groups[1].count - analysis.groups[2].count) < 10 * Len(responses)

C20_WitnessTen ==
    /\ InsightsGenerated
    /\ Len(responses) = 10
    /\ FracEq(FracSub(analysis.groups[1].percentage, analysis.groups[2].percentage),
              Frac(10, 1))
    /\ CountLabelled(insights, {"Close competition"}) = 0

\* the members of the first returned group, and the provider labels they carry
TopMembers == {analysis.groups[1].responses[m] : m \in 1..Len(analysis.groups[1].responses)}
Labelled(members) == {m \in members : responses[m].model # Undefined}
TopProviders == {responses[m].model.provider : m \in Labelled(TopMembers)}

\* C21: the "Provider bias" insight is emitted exactly when the members of
\* the top group that carry a provider label all share one provider, the
\* "Cross-provider agreement" insight exactly when they span at least 3
\* providers, and nothing of this category otherwise; members without a label
\* are left out of the rule, and generateInsights still returns its list.
C21_ProviderAgreement ==
    InsightsGenerated =>
        /\ CountLabelled(insights, {"Provider bias"}) =
               (IF Cardinality(TopProviders) = 1 THEN 1 ELSE 0)
        /\ CountLabelled(insights, {"Cross-provider agreement"}) =
               (IF Cardinality(TopProviders) >= 3 THEN 1 ELSE 0)
        /\ Cardinality(TopProviders) = 1 =>
               /\ insights[Len(insights)].label = "Provider bias"
               /\ insights[Len(insights)].provider \in TopProviders
        /\ Cardinality(TopProviders) >= 3 =>
               /\ insights[Len(insights)].label = "Cross-provider agreement"
               /\ insights[Len(insights)].providers = Cardinality(TopProviders)

\* C21 witness: the top group has two members of one provider and one member
\* without a label; the "Provider bias" insight is emitted.
C21_Witness ==
    /\ InsightsGenerated
    /\ Cardinality(TopMembers) = 3
    /\ Cardinality(Labelled(TopMembers)) = 2
    /\ Cardinality(TopProviders) = 1
    /\ insights[Len(insights)].label = "Provider bias"

\* a top group of three providers, and the "Cross-provider agreement" insight
C21_WitnessCross ==
    /\ InsightsGenerated
    /\ Cardinality(TopProviders) = 3
    /\ insights[Len(insights)].label = "Cross-provider agreement"

\* a top group of two providers, or of no labelled member: nothing emitted
C21_WitnessTwo ==
    /\ InsightsGenerated
    /\ Cardinality(TopProviders) = 2
    /\ CountLabelled(insights, {"Provider bias", "Cross-provider agreement"}) = 0

C21_WitnessNoLabel ==
    /\ InsightsGenerated
    /\ Labelled(TopMembers) = {}
    /\ CountLabelled(insights, {"Provider bias", "Cross-provider agreement"}) = 0

\* C30: the representatives of two distinct groups are at similarity strictly
\* below 0.8 (so no two groups share a name), and every member of a group is
\* at similarity >= 0.8 of its group's representative; similarity is that of
\* calculateSimilarity, the member taken by its normalized text.  It holds of
\* the groups while they are built and of the groups returned.
C30_SeparatedGroups ==
    /\ \A k, l \in 1..Len(groups) :
           k # l =>
               /\ FracLt(calculateSimilarity(groups[k].groupName, groups[l].groupName),
                         SIMILARITY_THRESHOLD)
               /\ groups[k].groupName # groups[l].groupName
    /\ \A k \in 1..Len(groups) :
           \A m \in 1..Len(groups[k].responses) :
               FracGeq(calculateSimilarity(groups[k].groupName,
                           normalizeText(responses[groups[k].responses[m]].text)),
                       SIMILARITY_THRESHOLD)
    /\ stage \in {"done", "insights"} => analysis.groups = groups

\* C30 witness: two groups returned, the first with a member that is not its
\* representative's text but at similarity exactly 0.8 of it.
C30_Witness ==
    /\ stage = "done"
    /\ Len(analysis.groups) = 2
    /\ analysis.groups[1].count = 2
    /\ calculateSimilarity(analysis.groups[1].groupName,
           normalizeText(responses[analysis.groups[1].responses[2]].text)) = Frac(4, 5)

(***************************************************************************)
(* Further properties of the batch completion fetcher.                     *)
(***************************************************************************)
\* C22: batchCompletion called with an empty model list ends in an error
\* surfaced to the caller, not in a returned list, and issues no request.
C22_EmptyListIsError ==
    (Len(modelIds) = 0 /\ pc # "start") =>
        /\ pc = "threw"
        /\ \A k \in DOMAIN tasks : tasks[k].requests = 0

\* what the code does with an empty model list: it returns the empty list
C22_EmptyListReturned ==
    /\ Len(modelIds) = 0
    /\ pc = "returned"
    /\ results = <<>>

\* every request that is issued settles
EveryRequestSettles ==
    \A k \in 1..MaxModels :
        (k \in DOMAIN tasks /\ InFlight(tasks[k]))
            ~> (k \in DOMAIN tasks /\ tasks[k].phase = "settled")

\* C24: batchCompletion returns for every non-empty modelIds and every
\* integer concurrency, 0 and negative values included, provided each
\* request settles.
C24_Terminates ==
    (Len(modelIds) >= 1 /\ EveryRequestSettles) => <>(pc = "returned")

\* the part of C24 that the code keeps: a concurrency >= 1
C24_TerminatesPositive ==
    (Len(modelIds) >= 1 /\ concurrency >= 1 /\ EveryRequestSettles) => <>(pc = "returned")

\* the loop of a call with concurrency 0 is in its pause for the second time,
\* nothing issued and nothing returned
C24_LoopsAtZero ==
    /\ concurrency = 0
    /\ Len(modelIds) >= 1
    /\ pc = "delay"
    /\ \A k \in DOMAIN tasks : tasks[k].phase = "idle"

\* a call with concurrency -1 has settled its first chunk, all entries but the
\* last, and goes on with empty chunks
C24_LoopsBelowZero ==
    /\ concurrency = -1
    /\ Len(modelIds) = MaxModels
    /\ pc = "delay"
    /\ i < 0
    /\ Len(results) = MaxModels - 1
    /\ tasks[MaxModels].phase = "idle"

(***************************************************************************)
(* POST /api/prompt: the handler selects the stored models, runs the batch *)
(* with the Vercel client, saves the successful responses, analyzes the    *)
(* saved rows and answers.  The batch is the fetcher above and the         *)
(* analysis the analyzer above, run one after the other on the same state. *)
(***************************************************************************)
\* concurrency: 5 in the batchCompletion call of the handler
RouteConcurrency == 5

\* rows of the models table (model_id is UNIQUE), by position of Catalog
ModelTable ==
    << [id |-> "m1", name |-> "GPT-4o", provider |-> "OpenAI", model_id |-> Catalog[1]],
       [id |-> "m2", name |-> "GPT-4o Mini", provider |-> "OpenAI", model_id |-> Catalog[2]],
       [id |-> "m3", name |-> "GPT-3.5 Turbo", provider |-> "OpenAI", model_id |-> Catalog[3]],
       [id |-> "m4", name |-> "Claude 3.5 Sonnet", provider |-> "Anthropic",
        model_id |-> Catalog[4]] >>

\* const selectedModels = allModels.filter(model => modelIds.includes(model.id)),
\* for the lists of this model: the first rows of the table
SelectedModels == SubSeq(ModelTable, 1, Len(modelIds))

\* selectedModels.find(m => m.model_id === batchResult.modelId)
FindModel(selected, modelId) ==
    LET found == {k \in 1..Len(selected) : selected[k].model_id = modelId}
    IN IF found = {} THEN Undefined
       ELSE selected[CHOOSE k \in found : \A l \in found : k <= l]

\* whether the handler takes a batch result as a failure:
\* batchResult.error || !batchResult.result || !model
IsFailure(batchResult, model) ==
    \/ "error" \in DOMAIN batchResult
    \/ ~("result" \in DOMAIN batchResult)
    \/ model = Undefined

\* one element of processedResults
ProcessedResult(batchResult, model) ==
    IF IsFailure(batchResult, model)
    THEN [model |-> IF model = Undefined
                    THEN [id |-> "unknown", name |-> "Unknown", provider |-> "Unknown"]
                    ELSE model,
          response_text |-> IF "error" \in DOMAIN batchResult THEN batchResult.error
                            ELSE "Error",
          response_time_ms |-> 0,
          error |-> IF "error" \in DOMAIN batchResult THEN batchResult.error
                    ELSE "Unknown error"]
    ELSE [model |-> [id |-> model.id, name |-> model.name, provider |-> model.provider],
          response_text |-> batchResult.result.text]

\* Mutant of ToSave: a row is pushed for a failed result too.
RECURSIVE ToSaveAll(_, _)
ToSaveAll(batchResults, selected) ==
    IF batchResults = <<>> THEN <<>>
    ELSE LET model == FindModel(selected, Head(batchResults).modelId)
         IN <<[model_id |-> model.id, text |-> <<>>,
               model |-> [name |-> model.name, provider |-> model.provider]]>>
                \o ToSaveAll(Tail(batchResults), selected)

\* responses.push({prompt_id, model_id: model.id, response_text, response_time_ms})
\* for each successful result, in the order of batchResults; the row is kept
\* here as saveResponses returns it, with its model joined, and text is its
\* response_text
RECURSIVE ToSave(_, _)
ToSave(batchResults, selected) ==
    IF batchResults = <<>> THEN <<>>
    ELSE LET model == FindModel(selected, Head(batchResults).modelId)
         IN (IF IsFailure(Head(batchResults), model) THEN <<>>
             ELSE <<[model_id |-> model.id, text |-> Head(batchResults).result.text,
                     model |-> [name |-> model.name, provider |-> model.provider]]>>)
                \o ToSave(Tail(batchResults), selected)

\* the body of the 200 answer
OkBody(processedResults, saved, an, ins, selected) ==
    [status |-> 200,
     responses |-> processedResults,
     consensus_groups |-> an.groups,
     insights |-> ins,
     total_models |-> Len(selected),
     successful_responses |-> Len(saved),
     failed_responses |-> Len(selected) - Len(saved)]

\* the body of the 500 answer of the catch block
ErrorBody == [status |-> 500]

\* The handler has validated its request, found a key and at least one
\* selected model, saved the prompt and calls batchCompletion.
RouteInit ==
    /\ client = "vercel"
    /\ apiKey \in ApiKeys
    /\ modelIds \in {SubSeq(Catalog, 1, n) : n \in 1..MaxModels}
    /\ concurrency = RouteConcurrency
    /\ pc = "start"
    /\ i = 0
    /\ tasks = [k \in 1..Len(modelIds) |-> IdleTask]
    /\ results = <<>>
    /\ responses = <<>> /\ groups = <<>> /\ cursor = 0 /\ stage = "off"
    /\ analysis = Undefined /\ insights = Undefined /\ previous = Undefined
    /\ rpc = "batch"
    /\ processed = <<>>
    /\ body = Undefined
    /\ KeyOff /\ StoreOff /\ BenchOff /\ SyncOff

\* batchCompletion has returned: processedResults and the rows to save are
\* built, saveResponses is awaited (it is not called for no row) and
\* analyzeConsensus is called with the rows it returned
ProcessAndSave ==
    /\ rpc = "batch"
    /\ pc = "returned"
    /\ processed' = [k \in 1..Len(results) |->
                        ProcessedResult(results[k], FindModel(SelectedModels, results[k].modelId))]
    /\ responses' = ToSave(results, SelectedModels)
    /\ stage' = "call"
    /\ rpc' = "analyze"
    /\ UNCHANGED <<groups, cursor, analysis, insights, previous, body>>
    /\ UNCHANGED <<fetchVars, keyVars, storeVars, benchVars, syncVars>>

\* saveResponses throws: the catch block answers 500
SaveFails ==
    /\ rpc = "batch"
    /\ pc = "returned"
    /\ ToSave(results, SelectedModels) # <<>>
    /\ body' = ErrorBody
    /\ rpc' = "responded"
    /\ UNCHANGED <<processed, anaVars, fetchVars>>
    /\ UNCHANGED <<keyVars, storeVars, benchVars, syncVars>>

\* generateInsights has returned: the handler answers 200
Respond ==
    /\ rpc = "analyze"
    /\ stage = "insights"
    /\ body' = OkBody(processed, responses, analysis, insights, SelectedModels)
    /\ rpc' = "responded"
    /\ UNCHANGED <<processed, anaVars, fetchVars>>
    /\ UNCHANGED <<keyVars, storeVars, benchVars, syncVars>>

RouteNext ==
    \/ CallStart
    \/ ChunkSettled
    \/ \E k \in DOMAIN tasks : Timeout(k)
    \/ \E k \in DOMAIN tasks : VercelResolve(k)
    \/ \E k \in DOMAIN tasks : VercelReject(k)
    \/ \E k \in DOMAIN tasks : VercelRetry(k)
    \/ ProcessAndSave
    \/ SaveFails
    \/ AnalyzeEmpty
    \/ GroupStep
    \/ GroupingDone
    \/ AnalyzeReturn
    \/ GenerateInsights
    \/ Respond

RouteSpec == RouteInit /\ [][RouteNext]_vars

\* the handler has answered 200
Answered == rpc = "responded" /\ body.status = 200

\* the positions of the selected models whose completion succeeded / failed
Succeeded == {k \in 1..Len(results) : HasResult(results[k])}
Failed == {k \in 1..Len(results) : HasError(results[k])}

\* C23: in the 200 answer of POST /api/prompt every selected model appears
\* once in responses; the entry of a failed model carries its error text in
\* place of a response; successful_responses + failed_responses =
\* total_models; and the consensus groups are computed over exactly the
\* successful responses: their counts sum to successful_responses, each
\* successful model is a member of exactly one group and no failed one is.
C23_Orchestration ==
    Answered =>
        /\ Len(body.responses) = Len(modelIds)
        /\ \A k \in 1..Len(modelIds) :
               Cardinality({j \in 1..Len(body.responses) :
                               body.responses[j].model.id = SelectedModels[k].id}) = 1
        /\ \A k \in Failed :
               /\ body.responses[k].model.id = SelectedModels[k].id
               /\ "error" \in DOMAIN body.responses[k]
               /\ body.responses[k].error = results[k].error
               /\ body.responses[k].response_text = results[k].error
        /\ \A k \in Succeeded :
               /\ body.responses[k].model.id = SelectedModels[k].id
               /\ ~("error" \in DOMAIN body.responses[k])
               /\ body.responses[k].response_text = results[k].result.text
        /\ body.total_models = Len(modelIds)
        /\ body.successful_responses = Cardinality(Succeeded)
        /\ body.failed_responses = Cardinality(Failed)
        /\ body.successful_responses + body.failed_responses = body.total_models
        /\ SumCounts(body.consensus_groups) = body.successful_responses
        /\ \A k \in Succeeded :
               Cardinality({pos \in 1..Len(responses) :
                               /\ responses[pos].model_id = SelectedModels[k].id
                               /\ Cardinality(Memberships(body.consensus_groups, pos)) = 1}) = 1
        /\ \A pos \in 1..Len(responses) :
               \A k \in Failed : responses[pos].model_id # SelectedModels[k].id

\* C23 witness: one model failed and two succeeded with different texts; the
\* answer holds three entries, two groups of one member, and the counts 2 + 1.
C23_Witness ==
    /\ Answered
    /\ Len(modelIds) = 3
    /\ Cardinality(Failed) = 1
    /\ Len(body.consensus_groups) = 2
    /\ body.successful_responses = 2
    /\ body.failed_responses = 1

(***************************************************************************)
(* The gateway key across requests.  getCompletion writes its client's     *)
(* key to process.env.AI_GATEWAY_API_KEY and generateText sends the key    *)
(* the environment holds; POST /api/prompt takes its key from the          *)
(* environment first and from the X-Vercel-AI-Gateway-Key header second.   *)
(* The environment is one per process, the requests are many.              *)
(***************************************************************************)
MaxRequests == 2
MaxCompletions == 2

\* the keys a request may carry in its header; <<>> is no header
HeaderKeys == {<<"k">>, <<"j">>}

\* the environment variable wins over the header; <<>> stands for null
getVercelAIGatewayApiKey(environment, header) ==
    IF environment # <<>> THEN environment ELSE header

\* a request that has not arrived
NoRequest ==
    [pc |-> "waiting", header |-> <<>>, key |-> <<>>, left |-> 0,
     written |-> 0, issued |-> {}]

KeyInit ==
    /\ FetcherOff /\ AnalyzerOff /\ RouteOff /\ StoreOff /\ BenchOff /\ SyncOff
    /\ env = <<>>
    /\ reqs = [r \in 1..MaxRequests |-> NoRequest]

\* POST /api/prompt begins: the key is resolved; without one it answers 500,
\* with one the client is constructed and n models are selected
Arrive(r, header, n) ==
    /\ reqs[r].pc = "waiting"
    /\ LET key == getVercelAIGatewayApiKey(env, header)
       IN reqs' = [reqs EXCEPT ![r] =
                      IF key = <<>>
                      THEN [@ EXCEPT !.pc = "refused", !.header = header]
                      ELSE [@ EXCEPT !.pc = "batch", !.header = header,
                                     !.key = key, !.left = n]]
    /\ UNCHANGED <<env, fetchVars, anaVars, routeVars, storeVars, benchVars, syncVars>>

\* getCompletion up to the call of generateText: the client's key is written
\* to the environment
SetKey(r) ==
    /\ reqs[r].pc = "batch"
    /\ reqs[r].left > 0
    /\ env' = reqs[r].key
    /\ reqs' = [reqs EXCEPT ![r].left = @ - 1, ![r].written = @ + 1]
    /\ UNCHANGED <<fetchVars, anaVars, routeVars, storeVars, benchVars, syncVars>>

\* generateText builds its request: it is issued with the key the
\* environment holds at that moment, at the call or any time after it
Send(r) ==
    /\ reqs[r].written > 0
    /\ reqs' = [reqs EXCEPT ![r].written = @ - 1, ![r].issued = @ \cup {env}]
    /\ UNCHANGED <<env, fetchVars, anaVars, routeVars, storeVars, benchVars, syncVars>>

\* every completion of the request was issued: the handler answers
Finish(r) ==
    /\ reqs[r].pc = "batch"
    /\ reqs[r].left = 0
    /\ reqs[r].written = 0
    /\ reqs' = [reqs EXCEPT ![r].pc = "done"]
    /\ UNCHANGED <<env, fetchVars, anaVars, routeVars, storeVars, benchVars, syncVars>>

KeyNext ==
    \/ \E r \in 1..MaxRequests, header \in HeaderKeys \cup {<<>>},
          n \in 1..MaxCompletions : Arrive(r, header, n)
    \/ \E r \in 1..MaxRequests : SetKey(r)
    \/ \E r \in 1..MaxRequests : Send(r)
    \/ \E r \in 1..MaxRequests : Finish(r)

KeySpec == KeyInit /\ [][KeyNext]_vars

\* C25: every completion is issued with the key of the client that issued
\* it, and a request that supplies key K in its header has all of its
\* completions issued with K, whatever other requests ran before it or run
\* beside it (the process starts with no key in the environment).
C25_KeyIsolation ==
    \A r \in DOMAIN reqs :
        /\ reqs[r].issued \subseteq {reqs[r].key}
        /\ reqs[r].header # <<>> => reqs[r].issued \subseteq {reqs[r].header}

\* C25, what the code keeps: the first request of a process, run alone, has
\* its completions issued with the key of its header.
C25_FirstAlone ==
    \A r \in DOMAIN reqs :
        (\A q \in DOMAIN reqs : q # r => reqs[q].pc = "waiting")
            => reqs[r].issued \subseteq {reqs[r].header}

\* a request with header key "j" arrived after another request had finished
\* with key "k", and issued a completion with "k"
C25_LaterRequestOtherKey ==
    \E r \in DOMAIN reqs, q \in DOMAIN reqs :
        /\ q # r
        /\ reqs[q].pc = "done" /\ reqs[q].header = <<"k">>
        /\ reqs[r].header = <<"j">> /\ reqs[r].key = <<"k">>
        /\ reqs[r].issued = {<<"k">>}

(***************************************************************************)
(* The models store.  Every handler is one action; syncModels and          *)
(* updateModelEnabled are split at their await of fetch, so that calls     *)
(* overlap.  searchTerm stays '' (every model matches the search) and      *)
(* sortBy does not matter to the handlers, which only test membership in   *)
(* the filtered list.                                                      *)
(***************************************************************************)
MaxStoreModels == 2
MaxCalls == 2

RECOMMENDED_MODEL_IDS ==
    {"openai/gpt-4o", "anthropic/claude-3-5-sonnet", "google/gemini-pro-1.5",
     "meta-llama/llama-3.1-70b-instruct", "mistralai/mistral-large",
     "cohere/command-r-plus"}

\* the rows a server may hand to the store, before their enabled flag
StoreTable == <<ModelTable[2], ModelTable[4], ModelTable[1], ModelTable[3]>>

WithEnabled(row, flag) ==
    [id |-> row.id, name |-> row.name, provider |-> row.provider,
     model_id |-> row.model_id, enabled |-> flag]

\* the model lists setModels and the answer of POST /api/models may carry
StoreInputs ==
    UNION {{[k \in 1..n |-> WithEnabled(StoreTable[k], flags[k])] :
               flags \in [1..n -> BOOLEAN]} : n \in 0..MaxStoreModels}

\* the ids handlers are called with: those of the table and one of no model
StoreIds == {StoreTable[k].id : k \in 1..MaxStoreModels} \cup {"m0"}

ProviderFilters == {"all", "OpenAI"}

\* Mutant of SelectedOf: the ids of all models.
AllIds(ms) == [k \in 1..Len(ms) |-> ms[k].id]

\* models.filter(m => m.enabled).map(m => m.id)
SelectedOf(ms) ==
    LET on == SelectSeq(ms, LAMBDA m : m.enabled)
    IN [k \in 1..Len(on) |-> on[k].id]

\* state.models.find(m => m.id === modelId) finds a model
HasModel(ms, modelId) == \E k \in 1..Len(ms) : ms[k].id = modelId

\* state.models.map(m => m.id === modelId ? { ...m, enabled: !m.enabled } : m)
Toggled(ms, modelId) ==
    [k \in 1..Len(ms) |->
        IF ms[k].id = modelId THEN [ms[k] EXCEPT !.enabled = ~@] ELSE ms[k]]

\* getFilteredModels with searchTerm '': the models of the chosen provider
getFilteredModels(ms, filter) ==
    SelectSeq(ms, LAMBDA m : filter = "all" \/ m.provider = filter)

\* state.models.map(model => filteredModels.some(...) ? { ...model, enabled } : model)
WithFiltered(ms, filter, flag) ==
    LET filteredModels == getFilteredModels(ms, filter)
    IN [k \in 1..Len(ms) |->
           IF HasModel(filteredModels, ms[k].id)
           THEN [ms[k] EXCEPT !.enabled = flag] ELSE ms[k]]

\* no call in this slot
NoCall == [kind |-> "idle", modelId |-> "m0"]

\* the enabled flag of a model of the list (FALSE when it has none such)
EnabledOf(ms, modelId) == \E k \in 1..Len(ms) : ms[k].id = modelId /\ ms[k].enabled

notStore == <<fetchVars, anaVars, routeVars, keyVars, benchVars, syncVars>>

StoreInit ==
    /\ FetcherOff /\ AnalyzerOff /\ RouteOff /\ KeyOff /\ BenchOff /\ SyncOff
    /\ models = <<>> /\ selectedModelIds = <<>> /\ modelsError = "null"
    /\ isLoading = FALSE /\ providerFilter = "all"
    /\ calls = [c \in 1..MaxCalls |-> NoCall]
    /\ held = <<>>

SetModels(ms) ==
    /\ models' = ms
    /\ selectedModelIds' = SelectedOf(ms)
    /\ UNCHANGED <<modelsError, isLoading, providerFilter, calls, notStore>>

\* the state toggleModel sets: the same state when no model has the id
AfterToggle(ms, selected, modelId) ==
    IF ~HasModel(ms, modelId)
    THEN [models |-> ms, selectedModelIds |-> selected]
    ELSE [models |-> Toggled(ms, modelId),
          selectedModelIds |-> SelectedOf(Toggled(ms, modelId))]

ToggleModel(modelId) ==
    /\ models' = AfterToggle(models, selectedModelIds, modelId).models
    /\ selectedModelIds' = AfterToggle(models, selectedModelIds, modelId).selectedModelIds
    /\ UNCHANGED <<modelsError, isLoading, providerFilter, calls, notStore>>

SelectAllModels ==
    /\ models' = WithFiltered(models, providerFilter, TRUE)
    /\ selectedModelIds' = SelectedOf(models')
    /\ UNCHANGED <<modelsError, isLoading, providerFilter, calls, notStore>>

DeselectAllModels ==
    /\ models' = WithFiltered(models, providerFilter, FALSE)
    /\ selectedModelIds' = SelectedOf(models')
    /\ UNCHANGED <<modelsError, isLoading, providerFilter, calls, notStore>>

SelectRecommendedModels ==
    /\ models' = [k \in 1..Len(models) |->
                     [models[k] EXCEPT !.enabled = models[k].model_id \in RECOMMENDED_MODEL_IDS]]
    /\ selectedModelIds' = SelectedOf(models')
    /\ UNCHANGED <<modelsError, isLoading, providerFilter, calls, notStore>>

SetProviderFilter(provider) ==
    /\ providerFilter' = provider
    /\ UNCHANGED <<models, selectedModelIds, modelsError, isLoading, calls, notStore>>

\* syncModels up to its await of fetch
SyncModelsStart(c) ==
    /\ calls[c].kind = "idle"
    /\ isLoading' = TRUE
    /\ modelsError' = "null"
    /\ calls' = [calls EXCEPT ![c] = [NoCall EXCEPT !.kind = "sync"]]
    /\ UNCHANGED <<models, selectedModelIds, providerFilter, notStore>>

\* the server answered 200 with data.models
SyncModelsOk(c, ms) ==
    /\ calls[c].kind = "sync"
    /\ models' = ms
    /\ selectedModelIds' = SelectedOf(ms)
    /\ isLoading' = FALSE
    /\ calls' = [calls EXCEPT ![c] = NoCall]
    /\ UNCHANGED <<modelsError, providerFilter, notStore>>

\* the server answered another status, or fetch or json() threw
SyncModelsFail(c) ==
    /\ calls[c].kind = "sync"
    /\ modelsError' = "Failed to sync models"
    /\ isLoading' = FALSE
    /\ calls' = [calls EXCEPT ![c] = NoCall]
    /\ UNCHANGED <<models, selectedModelIds, providerFilter, notStore>>

\* updateModelEnabled up to its await of fetch: the optimistic toggle.  The
\* argument enabled only travels to the server.
UpdateStart(c, modelId) ==
    /\ calls[c].kind = "idle"
    /\ models' = AfterToggle(models, selectedModelIds, modelId).models
    /\ selectedModelIds' = AfterToggle(models, selectedModelIds, modelId).selectedModelIds
    /\ calls' = [calls EXCEPT ![c] = [kind |-> "update", modelId |-> modelId]]
    /\ UNCHANGED <<modelsError, isLoading, providerFilter, notStore>>

\* the server answered 200
UpdateOk(c) ==
    /\ calls[c].kind = "update"
    /\ calls' = [calls EXCEPT ![c] = NoCall]
    /\ UNCHANGED <<models, selectedModelIds, modelsError, isLoading, providerFilter, notStore>>

\* the server answered another status: the toggle is made again, the error
\* thrown and caught
UpdateNotOk(c) ==
    /\ calls[c].kind = "update"
    /\ models' = AfterToggle(models, selectedModelIds, calls[c].modelId).models
    /\ selectedModelIds' =
           AfterToggle(models, selectedModelIds, calls[c].modelId).selectedModelIds
    /\ modelsError' = "Failed to update model"
    /\ calls' = [calls EXCEPT ![c] = NoCall]
    /\ UNCHANGED <<isLoading, providerFilter, notStore>>

\* fetch or response.json() threw: the catch block sets the error only
UpdateThrows(c) ==
    /\ calls[c].kind = "update"
    /\ modelsError' = "Failed to update model"
    /\ calls' = [calls EXCEPT ![c] = NoCall]
    /\ UNCHANGED <<models, selectedModelIds, isLoading, providerFilter, notStore>>

\* what the store holds of a model and of the selection
Holding(modelId) ==
    [enabled |-> EnabledOf(models, modelId), selectedModelIds |-> selectedModelIds]

\* the calls of updateModelEnabled, each remembered with what the store held
\* when it was made
UpdateNext ==
    \/ \E c \in 1..MaxCalls, modelId \in StoreIds :
          UpdateStart(c, modelId) /\ held' = [held EXCEPT ![c] = Holding(modelId)]
    \/ \E c \in 1..MaxCalls : UpdateOk(c) /\ UNCHANGED held
    \/ \E c \in 1..MaxCalls : UpdateNotOk(c) /\ UNCHANGED held
    \/ \E c \in 1..MaxCalls : UpdateThrows(c) /\ UNCHANGED held

\* the handlers of the store; held belongs to UpdateNext alone
StoreNext ==
    \/ \E ms \in StoreInputs : SetModels(ms) /\ UNCHANGED held
    \/ \E modelId \in StoreIds : ToggleModel(modelId) /\ UNCHANGED held
    \/ SelectAllModels /\ UNCHANGED held
    \/ DeselectAllModels /\ UNCHANGED held
    \/ SelectRecommendedModels /\ UNCHANGED held
    \/ \E provider \in ProviderFilters : SetProviderFilter(provider) /\ UNCHANGED held
    \/ \E c \in 1..MaxCalls : SyncModelsStart(c) /\ UNCHANGED held
    \/ \E c \in 1..MaxCalls, ms \in StoreInputs : SyncModelsOk(c, ms) /\ UNCHANGED held
    \/ \E c \in 1..MaxCalls : SyncModelsFail(c) /\ UNCHANGED held
    \/ \E c \in 1..MaxCalls, modelId \in StoreIds :
          UpdateStart(c, modelId) /\ UNCHANGED held
    \/ \E c \in 1..MaxCalls : UpdateOk(c) /\ UNCHANGED held
    \/ \E c \in 1..MaxCalls : UpdateNotOk(c) /\ UNCHANGED held
    \/ \E c \in 1..MaxCalls : UpdateThrows(c) /\ UNCHANGED held

StoreSpec == StoreInit /\ [][StoreNext]_vars

\* the ids of the enabled models of a list, in the order of the list
RECURSIVE EnabledIdsInOrder(_)
EnabledIdsInOrder(ms) ==
    IF ms = <<>> THEN <<>>
    ELSE (IF Head(ms).enabled THEN <<Head(ms).id>> ELSE <<>>)
             \o EnabledIdsInOrder(Tail(ms))

\* C26: after any sequence of the store's handlers selectedModelIds is the
\* list of the ids of the models whose enabled flag is true, in the order
\* of models; and toggleModel with an id no model has changes nothing.
C26_SelectedAreEnabled ==
    /\ [](selectedModelIds = EnabledIdsInOrder(models))
    /\ [][\A modelId \in StoreIds :
             (ToggleModel(modelId) /\ ~HasModel(models, modelId))
                 => UNCHANGED storeVars]_vars

\* C26 witness: a disabled model stands before an enabled one, and only the
\* second is selected
C26_Witness ==
    /\ Len(models) = 2
    /\ ~models[1].enabled /\ models[2].enabled
    /\ selectedModelIds = <<models[2].id>>

(***************************************************************************)
(* updateModelEnabled alone: the store holds a list setModels gave it and  *)
(* nothing runs but calls of updateModelEnabled, up to MaxCalls at a time. *)
(***************************************************************************)
UpdateInit ==
    /\ FetcherOff /\ AnalyzerOff /\ RouteOff /\ KeyOff /\ BenchOff /\ SyncOff
    /\ models \in StoreInputs
    /\ selectedModelIds = SelectedOf(models)
    /\ modelsError = "null"
    /\ isLoading = FALSE /\ providerFilter = "all"
    /\ calls = [c \in 1..MaxCalls |-> NoCall]
    /\ held = [c \in 1..MaxCalls |-> Holding("m0")]

UpdateSpec == UpdateInit /\ [][UpdateNext]_vars

\* the store holds again what it held when call c was made, and an error
Restored(c, ms, selected, error) ==
    /\ EnabledOf(ms, calls[c].modelId) = held[c].enabled
    /\ selected = held[c].selectedModelIds
    /\ error # "null"

\* C27: when a call of updateModelEnabled fails, by a status that is not OK
\* or by a request that throws, the enabled flag of the model and
\* selectedModelIds are what they were before the call and error is set,
\* also while another call for the same model is in flight.
C27_Rollback ==
    [][\A c \in DOMAIN calls :
          (UpdateNotOk(c) \/ UpdateThrows(c))
              => Restored(c, models', selectedModelIds', modelsError')]_vars

\* a single call has thrown and the model it toggled stays toggled
C27_ThrownKeepsToggle ==
    /\ Len(models) = 1
    /\ models[1].enabled
    /\ selectedModelIds = <<models[1].id>>
    /\ modelsError = "Failed to update model"
    /\ \A c \in DOMAIN calls : calls[c].kind = "idle"

(***************************************************************************)
(* The benchmark store.  submitPrompt and loadPromptResults are split at   *)
(* their await of fetch, so that calls overlap.  The displayed results     *)
(* are named, not spelled out: "empty" is [] (null for summary), "posted"  *)
(* what POST /api/prompt answered, "stored" what GET /api/prompt?id=       *)
(* answered.  loadHistory, which submitPrompt starts and does not await,   *)
(* touches promptHistory only and is left out.                             *)
(***************************************************************************)
MaxFlights == 2

\* what setPrompt may be given: nothing, blanks, a question
Prompts == {<<>>, <<" ">>, <<"a">>}

NoResults ==
    [responses |-> "empty", consensusGroups |-> "empty", insights |-> "empty",
     summary |-> "empty"]

notBench == <<fetchVars, anaVars, routeVars, keyVars, storeVars, syncVars>>

BenchInit ==
    /\ FetcherOff /\ AnalyzerOff /\ RouteOff /\ KeyOff /\ StoreOff /\ SyncOff
    /\ prompt = <<>>
    /\ isProcessing = FALSE
    /\ benchError = "null"
    /\ shown = NoResults
    /\ flights = [c \in 1..MaxFlights |-> "idle"]

SetPrompt(p) ==
    /\ prompt' = p
    /\ UNCHANGED <<isProcessing, benchError, shown, flights, notBench>>

\* Mutant of Rejected: only the empty prompt is refused.
RejectedForPromptOnly(p, n) == trim(p) = <<>>

\* submitPrompt returns before its request: blank prompt or no model
Rejected(p, n) == trim(p) = <<>> \/ n = 0

\* submitPrompt(modelIds) with n model ids, up to its await of fetch
SubmitPrompt(c, n) ==
    /\ flights[c] = "idle"
    /\ IF Rejected(prompt, n)
       THEN /\ benchError' = IF trim(prompt) = <<>> THEN "Please enter a prompt"
                             ELSE "Please select at least one model"
            /\ UNCHANGED <<isProcessing, shown, flights>>
       ELSE /\ isProcessing' = TRUE
            /\ benchError' = "null"
            /\ shown' = NoResults
            /\ flights' = [flights EXCEPT ![c] = "submit"]
    /\ UNCHANGED <<prompt, notBench>>

\* POST /api/prompt answered 200
SubmitOk(c) ==
    /\ flights[c] = "submit"
    /\ shown' = [responses |-> "posted", consensusGroups |-> "posted",
                 insights |-> "posted", summary |-> "posted"]
    /\ isProcessing' = FALSE
    /\ flights' = [flights EXCEPT ![c] = "idle"]
    /\ UNCHANGED <<prompt, benchError, notBench>>

\* POST /api/prompt answered another status, or fetch or json() threw
SubmitFail(c) ==
    /\ flights[c] = "submit"
    /\ benchError' = "Failed to process prompt"
    /\ isProcessing' = FALSE
    /\ flights' = [flights EXCEPT ![c] = "idle"]
    /\ UNCHANGED <<prompt, shown, notBench>>

\* loadPromptResults(promptId) up to its await of fetch
LoadPromptResults(c) ==
    /\ flights[c] = "idle"
    /\ isProcessing' = TRUE
    /\ benchError' = "null"
    /\ flights' = [flights EXCEPT ![c] = "load"]
    /\ UNCHANGED <<prompt, shown, notBench>>

\* GET /api/prompt?id= answered 200 with the prompt text p
LoadOk(c, p) ==
    /\ flights[c] = "load"
    /\ prompt' = p
    /\ shown' = [shown EXCEPT !.responses = "stored", !.consensusGroups = "stored"]
    /\ isProcessing' = FALSE
    /\ flights' = [flights EXCEPT ![c] = "idle"]
    /\ UNCHANGED <<benchError, notBench>>

\* GET /api/prompt?id= answered another status, or fetch or json() threw
LoadFail(c) ==
    /\ flights[c] = "load"
    /\ benchError' = "Failed to load prompt results"
    /\ isProcessing' = FALSE
    /\ flights' = [flights EXCEPT ![c] = "idle"]
    /\ UNCHANGED <<prompt, shown, notBench>>

BenchNext ==
    \/ \E p \in Prompts : SetPrompt(p)
    \/ \E c \in 1..MaxFlights, n \in 0..1 : SubmitPrompt(c, n)
    \/ \E c \in 1..MaxFlights : SubmitOk(c)
    \/ \E c \in 1..MaxFlights : SubmitFail(c)
    \/ \E c \in 1..MaxFlights : LoadPromptResults(c)
    \/ \E c \in 1..MaxFlights : LoadOk(c, <<"a">>)
    \/ \E c \in 1..MaxFlights : LoadFail(c)

BenchSpec == BenchInit /\ [][BenchNext]_vars

\* a submitPrompt or loadPromptResults request is in flight
RequestInFlight == \E c \in DOMAIN flights : flights[c] # "idle"

\* C28: isProcessing is true whenever a submitPrompt or loadPromptResults
\* request is in flight and false once none is, for any interleaving of
\* overlapping calls.
C28_ProcessingFlag == isProcessing <=> RequestInFlight

\* C28, second half: a submitPrompt refused for a blank prompt or an empty
\* model list sets error, starts no request and leaves isProcessing and the
\* displayed results as they were.
C28_RejectedSubmit ==
    [][\A c \in DOMAIN flights, n \in 0..1 :
          (SubmitPrompt(c, n) /\ (trim(prompt) = <<>> \/ n = 0))
              => /\ benchError' # "null"
                 /\ UNCHANGED <<flights, isProcessing, shown>>]_vars

\* one of two overlapping calls has ended and the other is still in flight:
\* the flag is down
C28_FlagDownInFlight == RequestInFlight /\ ~isProcessing

\* a refused submitPrompt has left its error beside results still displayed
C28_RejectedWitness ==
    /\ benchError = "Please select at least one model"
    /\ shown.responses = "posted"
    /\ ~RequestInFlight

(***************************************************************************)
(* POST /api/models, the model sync, against the models table.  The table  *)
(* is a function from model_id (its unique column) to the enabled flag of  *)
(* the row.  PUT /api/models, by which a user enables or disables a        *)
(* model, may run between any two database calls of the sync.              *)
(***************************************************************************)
MaxSyncModels == 2

\* the model ids the sync writes: the predefined list
PredefinedIds == {Catalog[k] : k \in 1..MaxSyncModels}

\* the model ids the table may hold: those and one no list has any more
StoredIds == PredefinedIds \cup {"old/model"}

\* the tables the sync may find
Tables == UNION {[ids -> BOOLEAN] : ids \in SUBSET StoredIds}

notSync == <<fetchVars, anaVars, routeVars, keyVars, storeVars, benchVars>>

SyncInit ==
    /\ FetcherOff /\ AnalyzerOff /\ RouteOff /\ KeyOff /\ StoreOff /\ BenchOff
    /\ db \in Tables
    /\ sync = [pc |-> "start", existingModelMap |-> <<>>, status |-> 0]

\* the handler up to getModels: without a key it answers 500
SyncStart(hasKey) ==
    /\ sync.pc = "start"
    /\ sync' = IF hasKey THEN [sync EXCEPT !.pc = "read"]
               ELSE [sync EXCEPT !.pc = "responded", !.status = 500]
    /\ UNCHANGED <<db, notSync>>

\* getModels returned the rows: existingModelMap maps model_id to enabled
GetExisting ==
    /\ sync.pc = "read"
    /\ sync' = [sync EXCEPT !.pc = "upsert", !.existingModelMap = db]
    /\ UNCHANGED <<db, notSync>>

\* getModels threw: the handler goes on with an empty map
GetExistingFails ==
    /\ sync.pc = "read"
    /\ sync' = [sync EXCEPT !.pc = "upsert", !.existingModelMap = <<>>]
    /\ UNCHANGED <<db, notSync>>

\* Mutant of modelsToUpsert: every model is written as enabled.
AllEnabled(existingModelMap) == [id \in PredefinedIds |-> TRUE]

\* enabled: existingModelMap.has(model_id) ? existingModelMap.get(model_id) : true
modelsToUpsert(existingModelMap) ==
    [id \in PredefinedIds |->
        IF id \in DOMAIN existingModelMap THEN existingModelMap[id] ELSE TRUE]

\* upsert(models, { onConflict: 'model_id' }): a row with the model_id is
\* overwritten with the payload, another one is inserted
Upserted(table, payload) ==
    [id \in DOMAIN table \cup DOMAIN payload |->
        IF id \in DOMAIN payload THEN payload[id] ELSE table[id]]

\* upsertModels returned: the handler answers 200
UpsertModels ==
    /\ sync.pc = "upsert"
    /\ db' = Upserted(db, modelsToUpsert(sync.existingModelMap))
    /\ sync' = [sync EXCEPT !.pc = "responded", !.status = 200]
    /\ UNCHANGED notSync

\* upsertModels threw: the handler answers 200 with the models it would
\* have saved
UpsertFails ==
    /\ sync.pc = "upsert"
    /\ sync' = [sync EXCEPT !.pc = "responded", !.status = 200]
    /\ UNCHANGED <<db, notSync>>

\* PUT /api/models: updateModelEnabled sets the flag of one stored row
PutEnabled(modelId, enabled) ==
    /\ modelId \in DOMAIN db
    /\ sync.pc # "responded"
    /\ db' = [db EXCEPT ![modelId] = enabled]
    /\ UNCHANGED <<sync, notSync>>

SyncNext ==
    \/ \E hasKey \in BOOLEAN : SyncStart(hasKey)
    \/ GetExisting
    \/ GetExistingFails
    \/ UpsertModels
    \/ UpsertFails
    \/ \E modelId \in StoredIds, enabled \in BOOLEAN : PutEnabled(modelId, enabled)

SyncSpec == SyncInit /\ [][SyncNext]_vars

\* C29: no step of POST /api/models changes the enabled flag of a model the
\* table already holds, whichever database calls fail or succeed; a model
\* the table did not hold is inserted as enabled.
C29_EnabledPreserved ==
    [][sync' # sync =>
          /\ \A id \in DOMAIN db : id \in DOMAIN db' /\ db'[id] = db[id]
          /\ \A id \in DOMAIN db' \ DOMAIN db : db'[id]]_vars

\* C29, what the code keeps: when getModels succeeded and no PUT came in
\* between, the upsert leaves every stored flag and inserts new models as
\* enabled
C29_PreservedAfterRead ==
    [][(UpsertModels /\ \A id \in DOMAIN db :
                            id \in DOMAIN sync.existingModelMap
                            /\ sync.existingModelMap[id] = db[id])
          => /\ \A id \in DOMAIN db : id \in DOMAIN db' /\ db'[id] = db[id]
             /\ \A id \in DOMAIN db' \ DOMAIN db : db'[id]]_vars

\* the sync went on with an empty map, wrote the table and answered 200
C29_SyncedWithoutMap ==
    /\ sync.pc = "responded" /\ sync.status = 200
    /\ sync.existingModelMap = <<>>
    /\ PredefinedIds \subseteq DOMAIN db
    /\ "old/model" \in DOMAIN db /\ ~db["old/model"]

====
